---- MODULE Spec2Model ----
(***************************************************************************)
(* Virtuals Launch Watcher: the lifecycle state machine, the tax tracker  *)
(* and the self-recovering push client (ResilientWebSocket).              *)
(*                                                                         *)
(* Specifications                                                          *)
(*   SpecWS     one push client used the way the monitors use it           *)
(*   SpecWSApi  SpecWS plus further callers of connect()                   *)
(*   SpecTax    one TaxTracker: init() once, then update() calls           *)
(*   Spec       the state machine with its monitors and their clients      *)
(*   SpecBackoff  one push client through a long run of failed reconnects  *)
(*   SpecWhale  one started whale detector and the events it is handed     *)
(*   SpecApi    the API server's trade ring under recordTrade() calls      *)
(*   SpecBuyback  one started spend scanner, its events and stall checks   *)
(*   SpecCatchUp  the machine entering BUYBACK_PHASE with blocks to scan    *)
(*   SpecDiscover  discoverProject() polling the launch catalog             *)
(*   SpecUpcoming  concurrent getUpcomingLaunches() calls and the cache     *)
(*   SpecPush   the API server's push sockets and its broadcasts            *)
(*   SpecRpc    concurrent RpcPool.call() retries on one pool               *)
(*   SpecShutdown  the main loop, a shutdown signal and the exit timer      *)
(***************************************************************************)
EXTENDS Integers, Sequences, FiniteSets, TLC

\* ---------------------------------------------------------------- bounds
MaxClients == 3
MaxTransports == 3
MaxTasks == 2
MaxSubs == 2

\* connect() attempts of one client followed through its back-off
MaxAttempts == 8

NULL == 0

Min(a, b) == IF a < b THEN a ELSE b

Max(a, b) == IF a > b THEN a ELSE b

ClientIds == 1..MaxClients

TransportIds == 1..Max(MaxTransports, MaxAttempts)

TaskIds == 1..MaxTasks

SubIds == 1..MaxSubs

\* ------------------------------------------------------------- variables
VARIABLES
    ws,        \* ResilientWebSocket objects: client id -> fields
    transport, \* ethers.WebSocketProvider objects: transport id -> state
    task,      \* pending async activations of connect() / handleDisconnect()
    last,      \* the operation performed by the last step and its result
    head,      \* number of the chain's latest block
    logs,      \* the base token's Transfer logs touching the chain, by block
    httpIndex, \* RpcPool.currentHttpIndex
    taxTracker,\* the TaxTracker object (present = FALSE: none)
    counted,   \* per log: how many times update() added it to the counters
    faults,    \* number of RPC calls that have failed so far
    now,       \* Date.now(), ms
    context,   \* StateMachine.context
    whaleTrades,    \* StateMachine.whaleTrades (present = FALSE: null)
    buybackTracker, \* StateMachine.buybackTracker (present = FALSE: null)
    lastProjectStatusCheck, \* StateMachine.lastProjectStatusCheck
    aborted,   \* abortController.signal.aborted
    stopped,   \* start() has left its loop and run cleanup()
    api,       \* ApiServer's cached state
    health,    \* HealthServer's cached state
    tradeHistory, \* ApiServer.tradeHistory, newest first
    emitted,      \* per transaction hash: calls of the detector's trade callback
    stallSignals, \* calls of onStall(): since the last recorded spend, and in all
    discovery,    \* the running call of VirtualsApi.discoverProject()
    upcoming,     \* VirtualsApi.upcomingCache / upcomingInFlight and the callers
    push,         \* ApiServer.clients and what each push socket has been sent
    rpcCall,      \* one running RpcPool.call()
    proc          \* the process: main()'s shutdown() and the timers of start()

wsVars == <<ws, transport, task>>

taxVars == <<head, logs, httpIndex, taxTracker, counted, faults>>

smVars == <<now, context, whaleTrades, buybackTracker, lastProjectStatusCheck,
            aborted, stopped, api, health, tradeHistory, emitted, discovery, stallSignals,
            upcoming, push, rpcCall, proc>>

svcVars == <<upcoming, push, rpcCall, proc>>

\* ================================================== ResilientWebSocket
reconnectDelayInit == 1000

maxDelay == 60000

NoListeners == [s \in SubIds |-> 0]

NoClient ==
    [created |-> FALSE, provider |-> NULL, reconnectDelay |-> reconnectDelayInit,
     subscriptions |-> <<>>, isConnecting |-> FALSE, shouldReconnect |-> TRUE]

\* new ResilientWebSocket(url)
NewClient == [NoClient EXCEPT !.created = TRUE]

NoTransport == [status |-> "unused", owner |-> NULL, onclose |-> FALSE, listeners |-> NoListeners]

NoTask == [pc |-> "idle", c |-> NULL, kind |-> "none", t |-> NULL]

\* no event was handed to a listener by the step
NoEvent == [txHash |-> NULL]

NoOp == [op |-> "init", c |-> NULL, t |-> NULL, ok |-> TRUE, pre |-> "none", note |-> "",
         e |-> NoEvent, chk |-> "none", calls |-> 0, span |-> 0]

Op(o, c, t, ok) == [NoOp EXCEPT !.op = o, !.c = c, !.t = t, !.ok = ok]

UnusedTransports(trs) == {t \in TransportIds : trs[t].status = "unused"}

FreshTransport(trs) == CHOOSE t \in UnusedTransports(trs) : \A u \in UnusedTransports(trs) : t <= u

IdleTasks == {k \in TaskIds : task[k].pc = "idle"}

FreshTask == CHOOSE k \in IdleTasks : \A j \in IdleTasks : k <= j

\* connect(), synchronous part up to `await this.provider.ready`:
\* isConnecting = true; this.provider = new ethers.WebSocketProvider(url)
connectOpen(w, trs, c, t) ==
    [ws |-> [w EXCEPT ![c].isConnecting = TRUE, ![c].provider = t],
     tr |-> [trs EXCEPT ![t] = [status |-> "connecting", owner |-> c,
                                onclose |-> FALSE, listeners |-> NoListeners]]]

\* setupDisconnectHandler(): installs onclose on the transport this.provider
\* refers to; nothing when this.provider is null
setupDisconnectHandler(w, trs, c) ==
    IF w[c].provider = NULL THEN trs
    ELSE [trs EXCEPT ![w[c].provider].onclose = TRUE]

\* restoreSubscriptions(): every registered subscription is bound to a new
\* contract on this.provider and its listener attached there; a subscription
\* whose restoration raises (index in failed) is logged and left as it was
RECURSIVE restoreFrom(_, _, _, _, _)
restoreFrom(subs, trs, p, failed, i) ==
    IF i > Len(subs) THEN [subs |-> subs, tr |-> trs]
    ELSE IF i \in failed THEN restoreFrom(subs, trs, p, failed, i + 1)
    ELSE restoreFrom([subs EXCEPT ![i].contract = p],
                     [trs EXCEPT ![p].listeners[subs[i].id] = @ + 1],
                     p, failed, i + 1)

restoreSubscriptions(w, trs, c, failed) ==
    IF w[c].provider = NULL \/ Len(w[c].subscriptions) = 0
    THEN [ws |-> w, tr |-> trs]
    ELSE LET r == restoreFrom(w[c].subscriptions, trs, w[c].provider, failed, 1)
         IN  [ws |-> [w EXCEPT ![c].subscriptions = r.subs], tr |-> r.tr]

\* connect(), after `await this.provider.ready` resolved on transport t
connectReady(w, trs, c, t, failed) ==
    LET tr1 == [trs EXCEPT ![t].status = IF @ = "connecting" THEN "open" ELSE @]
        tr2 == setupDisconnectHandler(w, tr1, c)
        w1  == [w EXCEPT ![c].reconnectDelay = reconnectDelayInit]
        r   == restoreSubscriptions(w1, tr2, c, failed)
    IN  [ws |-> [r.ws EXCEPT ![c].isConnecting = FALSE], tr |-> r.tr]

\* connect(), `await this.provider.ready` rejected: catch, rethrow, finally
connectFailed(w, trs, c, t) ==
    [ws |-> [w EXCEPT ![c].isConnecting = FALSE],
     tr |-> [trs EXCEPT ![t].status = "closed"]]

\* addSubscription(contract, event, listener): contract is bound to transport t
addSubscription(w, trs, c, s, t) ==
    [ws |-> [w EXCEPT ![c].subscriptions = Append(@, [id |-> s, contract |-> t])],
     tr |-> [trs EXCEPT ![t].listeners[s] = @ + 1]]

\* clearSubscriptions(): sub.contract.off(event, listener) for each, then empty
RECURSIVE clearFrom(_, _, _)
clearFrom(subs, trs, i) ==
    IF i > Len(subs) THEN trs
    ELSE clearFrom(subs,
                   [trs EXCEPT ![subs[i].contract].listeners[subs[i].id] = Max(0, @ - 1)],
                   i + 1)

clearSubscriptions(w, trs, c) ==
    [ws |-> [w EXCEPT ![c].subscriptions = <<>>],
     tr |-> clearFrom(w[c].subscriptions, trs, 1)]

\* destroy(): shouldReconnect = false; clearSubscriptions(); provider.destroy()
destroy(w, trs, c) ==
    LET r == clearSubscriptions([w EXCEPT ![c].shouldReconnect = FALSE], trs, c)
        p == w[c].provider
    IN  IF p = NULL THEN r
        ELSE [ws |-> [r.ws EXCEPT ![c].provider = NULL],
              tr |-> [r.tr EXCEPT ![p].status = "closed"]]

\* -------------------------------------------------- push client actions
\* the step opens no transport beyond the first n
InPool(n) == \A t \in TransportIds : t > n => transport'[t] = NoTransport

\* a task enters connect() on client c: waits while a connection is in
\* progress, otherwise opens a transport (w is the client state it starts from)
EnterConnect(w, k, c, kind) ==
    IF w[c].isConnecting
    THEN /\ task' = [task EXCEPT ![k] = [pc |-> "waitConnecting", c |-> c, kind |-> kind, t |-> NULL]]
         /\ ws' = w
         /\ transport' = transport
    ELSE /\ UnusedTransports(transport) # {}
         /\ LET t == FreshTransport(transport)
                r == connectOpen(w, transport, c, t)
            IN  /\ ws' = r.ws
                /\ transport' = r.tr
                /\ task' = [task EXCEPT ![k] = [pc |-> "awaitReady", c |-> c, kind |-> kind, t |-> t]]

\* a monitor's start() calls connect() on its client
CallConnect(c) ==
    /\ ws[c].created
    /\ IdleTasks # {}
    /\ EnterConnect(ws, FreshTask, c, "call")
    /\ last' = Op("connectCall", c, NULL, TRUE)

\* the wait loop of connect() sees isConnecting = false
WaitPoll(k) ==
    /\ task[k].pc = "waitConnecting"
    /\ LET c == task[k].c IN
       /\ ~ws[c].isConnecting
       /\ IF ws[c].provider # NULL
          THEN /\ task' = [task EXCEPT ![k] = NoTask]
               /\ last' = Op("connectReturn", c, ws[c].provider, TRUE)
               /\ UNCHANGED <<ws, transport>>
          ELSE /\ EnterConnect(ws, k, c, task[k].kind)
               /\ last' = Op("connectOpen", c, NULL, TRUE)

\* handleDisconnect(): returns when reconnect is disabled, else sleeps
handleDisconnect(w, k, c) ==
    IF w[c].shouldReconnect
    THEN [task EXCEPT ![k] = [pc |-> "backoff", c |-> c, kind |-> "reconnect", t |-> NULL]]
    ELSE [task EXCEPT ![k] = NoTask]

\* `await this.provider.ready` settles for the task that opened transport t
ConnectSettle(k) ==
    /\ task[k].pc = "awaitReady"
    /\ LET c == task[k].c
           t == task[k].t
       IN \/ \E failed \in SUBSET (1..Len(ws[c].subscriptions)) :
               LET r == connectReady(ws, transport, c, t, failed) IN
               /\ ws' = r.ws
               /\ transport' = r.tr
               /\ task' = [task EXCEPT ![k] = NoTask]
               /\ last' = Op("connectReturn", c, ws[c].provider, TRUE)
          \/ LET r == connectFailed(ws, transport, c, t) IN
               /\ ws' = r.ws
               /\ transport' = r.tr
               /\ task' = IF task[k].kind = "reconnect"
                          THEN handleDisconnect(r.ws, k, c)
                          ELSE [task EXCEPT ![k] = NoTask]
               /\ last' = Op("connectThrow", c, t, FALSE)

\* the socket of an open transport closes; ws.onclose runs when installed
TransportClose(t) ==
    /\ transport[t].status = "open"
    /\ LET c == transport[t].owner IN
       /\ transport' = [transport EXCEPT ![t].status = "closed"]
       /\ IF transport[t].onclose /\ ws[c].shouldReconnect
          THEN /\ IdleTasks # {}
               /\ task' = handleDisconnect(ws, FreshTask, c)
          ELSE task' = task
       /\ ws' = ws
       /\ last' = Op("close", c, t, TRUE)

\* the back-off step without its cap
nextDelay_Uncapped(d) == d * 2

\* handleDisconnect(): the delay after one more scheduled attempt
nextDelay(d) == Min(d * 2, maxDelay)

\* handleDisconnect() after `await sleep(this.reconnectDelay)`
BackoffElapsed(k) ==
    /\ task[k].pc = "backoff"
    /\ LET c == task[k].c
           w == [ws EXCEPT ![c].reconnectDelay = nextDelay(@)]
       IN EnterConnect(w, k, c, "reconnect")
    /\ last' = Op("reconnect", task[k].c, NULL, TRUE)

\* a monitor registers a subscription on the transport it was handed
AddSubscription(c, s) ==
    /\ ws[c].created
    /\ ws[c].shouldReconnect
    /\ ws[c].provider # NULL
    /\ transport[ws[c].provider].status = "open"
    /\ \A i \in 1..Len(ws[c].subscriptions) : ws[c].subscriptions[i].id # s
    /\ \A j \in SubIds : j < s => \E i \in 1..Len(ws[c].subscriptions) : ws[c].subscriptions[i].id = j
    /\ LET r == addSubscription(ws, transport, c, s, ws[c].provider) IN
       /\ ws' = r.ws
       /\ transport' = r.tr
    /\ task' = task
    /\ last' = Op("addSubscription", c, ws[c].provider, TRUE)

\* the owning monitor's stop() destroys the client
Destroy(c) ==
    /\ ws[c].created
    /\ ws[c].shouldReconnect
    /\ LET r == destroy(ws, transport, c) IN
       /\ ws' = r.ws
       /\ transport' = r.tr
    /\ task' = task
    /\ last' = Op("destroy", c, NULL, TRUE)

\* ========================================================== the chain
\* Base produces a block every 2 s (block b is stamped b * 2 s)
ChainBlockSecs == 2

\* block.timestamp * 1000
BlockTimeMs(b) == b * ChainBlockSecs * 1000

RECEIVER == "receiver"

ELSEWHERE == "elsewhere"

Transfer(b, f, t, v) == [block |-> b, from |-> f, to |-> t, value |-> v]

ChainA ==
    << Transfer(3500, ELSEWHERE, RECEIVER, 5), Transfer(5600, RECEIVER, ELSEWHERE, 2),
       Transfer(8900, RECEIVER, RECEIVER, 1), Transfer(9030, ELSEWHERE, RECEIVER, 3),
       Transfer(9100, RECEIVER, ELSEWHERE, 1) >>

ChainB ==
    << Transfer(3200, RECEIVER, ELSEWHERE, 4), Transfer(8950, ELSEWHERE, RECEIVER, 1),
       Transfer(9020, ELSEWHERE, ELSEWHERE, 7) >>

Chains == {ChainA, ChainB}

GenesisBalance == 10

RECURSIVE SumLogs(_, _, _, _, _)
\* sum of the values of the logs of lg in blocks (a, b] moving in direction dir
SumLogs(lg, a, b, dir, i) ==
    IF i > Len(lg) THEN 0
    ELSE (IF lg[i].block > a /\ lg[i].block <= b
             /\ (IF dir = "in" THEN lg[i].to = RECEIVER ELSE lg[i].from = RECEIVER)
          THEN lg[i].value ELSE 0) + SumLogs(lg, a, b, dir, i + 1)

\* balanceOf(buybackAddr) at block b
BalanceAt(lg, b) == GenesisBalance + SumLogs(lg, 0, b, "in", 1) - SumLogs(lg, 0, b, "out", 1)

\* ============================================================ RpcPool
NumHttp == 2

\* a rotation that keeps the active endpoint
rotateHttp_Stay(i) == i

\* rotateHttp()
rotateHttp(i) == (i + 1) % NumHttp

\* ======================================================== timeToBlock
AVERAGE_BLOCK_TIME_MS == 2000

SearchRadius == 500

RECURSIVE binarySearch(_, _, _, _)
\* the search loop; it stops early at a block the endpoint does not return
\* (found = FALSE: getBlock(mid) yields null)
binarySearch(lo, hi, targetTime, found) ==
    IF lo < hi
    THEN LET mid == (lo + hi) \div 2 IN
         IF ~found THEN lo
         ELSE IF BlockTimeMs(mid) < targetTime
         THEN binarySearch(mid + 1, hi, targetTime, found)
         ELSE binarySearch(lo, mid, targetTime, found)
    ELSE lo

timeToBlock(latest, timestamp, found) ==
    LET latestTime == BlockTimeMs(latest) IN
    IF timestamp >= latestTime THEN latest
    ELSE LET blockDiff == (latestTime - timestamp) \div AVERAGE_BLOCK_TIME_MS
             targetBlockNum == Max(0, latest - blockDiff)
         IN  binarySearch(Max(0, targetBlockNum - SearchRadius),
                          Min(latest, targetBlockNum + SearchRadius), timestamp, found)

\* ========================================================= TaxTracker
maxBlockRange == 2000

\* field initialisers and constructor: the contract is bound to the pool's
\* active HTTP endpoint
NewTaxTracker(idx) ==
    [present |-> TRUE, inited |-> FALSE, blockStart |-> 0, lastProcessedBlock |-> 0,
     startBalance |-> 0, inflow |-> 0, outflow |-> 0, netInflow |-> 0,
     balanceDiff |-> 0, delta |-> 0, endpoint |-> idx]

NoTaxTracker == [NewTaxTracker(0) EXCEPT !.present = FALSE]

NoCount == [i \in 1..5 |-> 0]

\* init(t0) when timeToBlock succeeds; outcome "balanceFails": both historical
\* balanceOf reads fail and startBalance falls back to 0; "blockMissing": the
\* search of timeToBlock meets a block the endpoint does not return
taxInit(tt, hd, lg, t0, outcome) ==
    LET bs == timeToBlock(hd, t0, outcome # "blockMissing")
        balanceOk == outcome # "balanceFails"
    IN
    [tt EXCEPT !.inited = TRUE, !.blockStart = bs, !.lastProcessedBlock = bs,
               !.startBalance = IF balanceOk THEN BalanceAt(lg, bs) ELSE 0]

\* update() without the cap at the latest block
toBlockOf_Uncapped(latestBlock, lastProcessed) == lastProcessed + maxBlockRange

\* upper end of the range one update() scans
toBlockOf(latestBlock, lastProcessed) == Min(latestBlock, lastProcessed + maxBlockRange)

\* the logs of (lastProcessed, toBlock] added to the counters by one update()
ScannedBy(lg, lastProcessed, toBlock) ==
    {i \in 1..Len(lg) : lg[i].block > lastProcessed /\ lg[i].block <= toBlock}

\* a net inflow that is never reported below zero
netOf_Clamped(inflow, outflow) == Max(0, inflow - outflow)

\* accumulated.netInflow = accumulated.inflow - accumulated.outflow
netOf(inflow, outflow) == inflow - outflow

\* update(): outcome is the RPC step that raises, or "ok".  Returns the tracker,
\* the set of logs whose values it added, and whether it raised.
taxUpdate(tt, hd, lg, idx, outcome) ==
    LET failed(t) == [tt |-> [t EXCEPT !.endpoint = rotateHttp(idx)], added |-> {},
                      threw |-> TRUE, idx |-> rotateHttp(idx)]
        toBlock == toBlockOf(hd, tt.lastProcessedBlock)
        inflowDelta == SumLogs(lg, tt.lastProcessedBlock, toBlock, "in", 1)
        outflowDelta == SumLogs(lg, tt.lastProcessedBlock, toBlock, "out", 1)
        acc == [tt EXCEPT !.inflow = @ + inflowDelta, !.outflow = @ + outflowDelta,
                          !.netInflow = netOf(tt.inflow + inflowDelta, tt.outflow + outflowDelta)]
        bal == BalanceAt(lg, hd) - tt.startBalance
    IN  IF outcome = "blockNumberFails" THEN failed(tt)
        ELSE IF hd <= tt.lastProcessedBlock
        THEN [tt |-> tt, added |-> {}, threw |-> FALSE, idx |-> idx]
        ELSE IF outcome = "queryFails" THEN failed(tt)
        ELSE IF outcome = "balanceFails"
        THEN [failed(acc) EXCEPT !.added = ScannedBy(lg, tt.lastProcessedBlock, toBlock)]
        ELSE [tt |-> [acc EXCEPT !.balanceDiff = bal, !.delta = bal - acc.netInflow,
                                 !.lastProcessedBlock = toBlock],
              added |-> ScannedBy(lg, tt.lastProcessedBlock, toBlock),
              threw |-> FALSE, idx |-> idx]

Count(cnt, added) == [i \in DOMAIN cnt |-> IF i \in added THEN cnt[i] + 1 ELSE cnt[i]]

\* --------------------------------------------------- tax tracker alone
MaxHead == 12000

MaxFaults == 1

HeadStart == 9000

\* new blocks are produced
ChainAdvance(n) ==
    /\ head + n <= MaxHead
    /\ head' = head + n
    /\ last' = Op("advance", NULL, n, TRUE)
    /\ UNCHANGED <<logs, httpIndex, taxTracker, counted, faults>>
    /\ UNCHANGED smVars

\* init(t0) on a new tracker; when timeToBlock raises the object is dropped
\* and the caller's retry constructs a new one
TaxInit(t0, outcome) ==
    /\ taxTracker.present /\ ~taxTracker.inited
    /\ outcome # "ok" => faults < MaxFaults
    /\ faults' = IF outcome = "ok" THEN faults ELSE faults + 1
    /\ IF outcome = "timeToBlockFails"
       THEN /\ taxTracker' = NewTaxTracker(httpIndex)
            /\ last' = Op("taxInit", NULL, NULL, FALSE)
       ELSE /\ taxTracker' = taxInit(taxTracker, head, logs, t0, outcome)
            /\ last' = Op("taxInit", NULL, NULL, TRUE)
    /\ UNCHANGED <<head, logs, httpIndex, counted>>

TaxUpdate(outcome) ==
    /\ taxTracker.present /\ taxTracker.inited
    /\ outcome # "ok" => faults < MaxFaults
    /\ LET r == taxUpdate(taxTracker, head, logs, httpIndex, outcome) IN
       /\ taxTracker' = r.tt
       /\ counted' = Count(counted, r.added)
       /\ httpIndex' = r.idx
       /\ faults' = IF r.threw THEN faults + 1 ELSE faults
       /\ last' = Op("taxUpdate", NULL, taxTracker.lastProcessedBlock, ~r.threw)
    /\ UNCHANGED <<head, logs>>

\* start() of the owning monitor: the first connect() on a new client
StartConnect(c) ==
    /\ ws[c].created
    /\ ws[c].shouldReconnect
    /\ ws[c].provider = NULL
    /\ \A t \in TransportIds : transport[t].owner # c
    /\ \A k \in TaskIds : task[k].c # c
    /\ IdleTasks # {}
    /\ EnterConnect(ws, FreshTask, c, "call")
    /\ last' = Op("connectCall", c, NULL, TRUE)

\* ============================================================ LRUCache
\* capacity of a detector's dedup cache (1000 in the source), scaled down; it
\* stays above maxHistory as 1000 is above 100
lruMaxSize == 3

MaxHashes == 4

TxHashes == 1..MaxHashes

\* has(key) that never finds the key
lruHas_Never(cache, key) == FALSE

\* has(key): the cache is the Map's keys in insertion order, oldest first
lruHas(cache, key) == \E i \in 1..Len(cache) : cache[i] = key

\* set(key, true)
lruSet(cache, key) ==
    IF lruHas(cache, key)
    THEN Append(SelectSeq(cache, LAMBDA k : k # key), key)
    ELSE IF Len(cache) >= lruMaxSize THEN Append(Tail(cache), key)
    ELSE Append(cache, key)

\* =========================================================== WhaleTrades
\* config.thresholds.bigTradeVirtual, whole tokens
bigTradeVirtual == 1000

POOL == "pool"

TRADER == "trader"

Abs(x) == IF x < 0 THEN -x ELSE x

\* new WhaleTrades(poolAddress, poolType)
NewWhaleTrades(poolType) ==
    [present |-> TRUE, isRunning |-> FALSE, ws |-> NULL, poolType |-> poolType,
     virtualIsToken0 |-> FALSE, lruCache |-> <<>>]

NoWhaleTrades == [NewWhaleTrades("virtuals_curve") EXCEPT !.present = FALSE]

\* the handler returned without calling onWhaleTrade
Ignored(wt) == [wt |-> wt, emits |-> FALSE, trade |-> [direction |-> "none"]]

\* a Swap event of the pair: the amounts and the transaction
SwapEvents ==
    [sender : {TRADER}, amount0In : {1500}, amount1In : {0}, amount0Out : {0}, amount1Out : {7},
     txHash : TxHashes]
    \cup [sender : {TRADER}, amount0In : {0}, amount1In : {7}, amount0Out : {1000},
          amount1Out : {0}, txHash : TxHashes]
    \cup [sender : {TRADER}, amount0In : {7}, amount1In : {0}, amount0Out : {0},
          amount1Out : {1500}, txHash : TxHashes]

\* a Transfer event of the base token
TransferEvents ==
    [from : {POOL}, to : {TRADER}, value : {1500}, txHash : TxHashes]
    \cup [from : {TRADER}, to : {POOL}, value : {999, 1000}, txHash : TxHashes]
    \cup [from : {TRADER}, to : {ELSEWHERE}, value : {1500}, txHash : TxHashes]

\* handleSwap(sender, amount0In, amount1In, amount0Out, amount1Out, txHash, blockNumber)
handleSwap(wt, e, blockNumber, time) ==
    LET deltaVirtual == IF wt.virtualIsToken0 THEN e.amount0In - e.amount0Out
                        ELSE e.amount1In - e.amount1Out
        deltaToken == IF wt.virtualIsToken0 THEN e.amount1Out - e.amount1In
                      ELSE e.amount0Out - e.amount0In
        absVirtual == IF deltaVirtual < 0 THEN -deltaVirtual ELSE deltaVirtual
    IN  IF lruHas(wt.lruCache, e.txHash) THEN Ignored(wt)
        ELSE IF absVirtual < bigTradeVirtual THEN Ignored(wt)
        ELSE [wt |-> [wt EXCEPT !.lruCache = lruSet(@, e.txHash)], emits |-> TRUE,
              trade |-> [direction |-> IF deltaVirtual > 0 THEN "SELL" ELSE "BUY",
                         amountVirtual |-> absVirtual,
                         amountToken |-> IF deltaToken < 0 THEN -deltaToken ELSE deltaToken,
                         trader |-> e.sender, txHash |-> e.txHash,
                         blockNumber |-> blockNumber, timestamp |-> time]]

\* handleTransfer(from, to, value, txHash, blockNumber): curve mode
handleTransfer(wt, e, blockNumber, time) ==
    IF e.from # POOL /\ e.to # POOL THEN Ignored(wt)
    ELSE IF lruHas(wt.lruCache, e.txHash) THEN Ignored(wt)
    ELSE IF e.value < bigTradeVirtual THEN Ignored(wt)
    ELSE LET isBuy == e.from = POOL IN
         [wt |-> [wt EXCEPT !.lruCache = lruSet(@, e.txHash)], emits |-> TRUE,
          trade |-> [direction |-> IF isBuy THEN "BUY" ELSE "SELL",
                     amountVirtual |-> e.value, amountToken |-> 0,
                     trader |-> IF isBuy THEN e.to ELSE e.from, txHash |-> e.txHash,
                     blockNumber |-> blockNumber, timestamp |-> time]]

\* ============================================================ ApiServer
\* length of the trade ring (100 in the source), scaled down
maxHistory == 2

\* recordTrade(trade): unshift, then pop when over maxHistory
recordTrade(history, trade) ==
    LET h == <<trade>> \o history
    IN  IF Len(h) > maxHistory THEN SubSeq(h, 1, Len(h) - 1) ELSE h


\* ======================================================== StateMachine
DISCOVER == "DISCOVER"

WAIT_T0 == "WAIT_T0"

LAUNCH_WINDOW == "LAUNCH_WINDOW"

BUYBACK_PHASE == "BUYBACK_PHASE"

DONE == "DONE"

\* startBalance: null
NoBalance == -1

\* config.thresholds.taxWindowMinutes
TaxWindowMinutes == 100

\* config.thresholds.stallAlertMinutes
StallAlertMinutes == 5

MinuteMs == 60000

projectStatusCheckIntervalMs == 60000

taxUpdateInterval == 300000

buybackUpdateInterval == 600000

maxCatchUpRounds == 10

\* the backlog above which the refresh runs catch-up rounds
catchUpBacklog == 2000

MaxProjects == 2

ProjectIds == 1..MaxProjects

\* the context a new StateMachine starts with and handleDone() resets to
ResetContext ==
    [state |-> DISCOVER, project |-> NULL, t0 |-> NULL, t1 |-> NULL, taxTotal |-> 0,
     startBalance |-> NoBalance, lastTaxUpdate |-> NULL, lastBuybackUpdate |-> NULL]

\* config.thresholds.buybackRateWindowMinutes
buybackRateWindowMinutes == 20

NoBuybackTracker ==
    [present |-> FALSE, isRunning |-> FALSE, ws |-> NULL, taxTotal |-> 0,
     spentHistory |-> <<>>, spentTotal |-> 0, lastSpentTime |-> 0, stallAlerted |-> FALSE]

\* new BuybackTracker(taxTotal)
NewBuybackTracker(taxTotal) == [NoBuybackTracker EXCEPT !.present = TRUE, !.taxTotal = taxTotal]

\* ApiServer.updateContext(context)
updateContext(ctx) ==
    [currentState |-> ctx.state, currentProject |-> ctx.project,
     t0 |-> ctx.t0, t1 |-> ctx.t1, taxTotal |-> ctx.taxTotal]

\* HealthServer.updateState(state, projectId, ...)
updateState(ctx) == [currentState |-> ctx.state, currentProjectId |-> ctx.project]

UnusedClients(w) == {c \in ClientIds : ~w[c].created}

FreshClient(w) == CHOOSE c \in UnusedClients(w) : \A d \in UnusedClients(w) : c <= d

\* what a tick starts from: tick() first pushes the context to the health
\* server and to the API server
TickStart ==
    [ctx |-> context, tt |-> taxTracker, cnt |-> counted, idx |-> httpIndex,
     wt |-> whaleTrades, bt |-> buybackTracker, ws |-> ws, tr |-> transport,
     api |-> updateContext(context), health |-> updateState(context),
     lpsc |-> lastProjectStatusCheck, sig |-> stallSignals, threw |-> FALSE, note |-> "",
     chk |-> "none", calls |-> 0, span |-> 0]

Throw(r, why) == [r EXCEPT !.threw = TRUE, !.note = why]

\* transition(newState)
transition(r, newState) ==
    LET c1 == [r.ctx EXCEPT !.state = newState,
                            !.startBalance = IF newState = DISCOVER THEN NoBalance ELSE @]
    IN  [r EXCEPT !.ctx = c1, !.health = updateState(c1), !.api = updateContext(c1)]

\* WhaleTrades.stop() / BuybackTracker.stop(): destroys the monitor's client
stopMonitor(r, m) ==
    IF m.ws = NULL THEN r
    ELSE LET d == destroy(r.ws, r.tr, m.ws) IN [r EXCEPT !.ws = d.ws, !.tr = d.tr]

\* cleanup()
cleanup(r) ==
    LET r1 == IF r.wt.present THEN [stopMonitor(r, r.wt) EXCEPT !.wt = NoWhaleTrades] ELSE r
        r2 == IF r1.bt.present THEN [stopMonitor(r1, r1.bt) EXCEPT !.bt = NoBuybackTracker] ELSE r1
    IN  [r2 EXCEPT !.tt = NoTaxTracker]

\* a monitor's start(): new ResilientWebSocket on client c, connect() on
\* transport t, then (connected) one addSubscription
startMonitor(r, c, t, connects) ==
    LET w0 == [r.ws EXCEPT ![c] = NewClient]
        o  == connectOpen(w0, r.tr, c, t)
    IN  IF connects
        THEN LET k == connectReady(o.ws, o.tr, c, t, {})
                 a == addSubscription(k.ws, k.tr, c, 1, t)
             IN  [r EXCEPT !.ws = a.ws, !.tr = a.tr]
        ELSE LET f == connectFailed(o.ws, o.tr, c, t)
             IN  Throw([r EXCEPT !.ws = f.ws, !.tr = f.tr], "connect")

\* handleDiscover() whose callback forgets to store the selected project
handleDiscover_NoProject(r, p, t0, found) ==
    IF ~found THEN Throw(r, "discover")
    ELSE transition([r EXCEPT !.ctx.t0 = t0, !.ctx.t1 = t0 + TaxWindowMinutes * 60 * 1000,
                              !.lpsc = NULL], WAIT_T0)

\* handleDiscover(): discoverProject() selects project p anchored at t0, or
\* raises after too many failed polls
handleDiscover(r, p, t0, found) ==
    IF ~found THEN Throw(r, "discover")
    ELSE LET r1 == [r EXCEPT !.ctx.project = p, !.ctx.t0 = t0,
                             !.ctx.t1 = t0 + TaxWindowMinutes * 60 * 1000,
                             !.lpsc = NULL]
         IN  transition(r1, WAIT_T0)

\* handleWaitT0(): outcome is "ok", "balanceFails" (startBalance falls back to
\* 0), "blockMissing", "timeToBlockFails" or "connectFails"
handleWaitT0(r, outcome, c, t) ==
    IF r.ctx.project = NULL THEN [transition(r, DISCOVER) EXCEPT !.note = "fallback"]
    ELSE IF outcome = "timeToBlockFails"
    THEN Throw([r EXCEPT !.tt = NewTaxTracker(r.idx), !.cnt = NoCount], "timeToBlock")
    ELSE LET tt1 == taxInit(NewTaxTracker(r.idx), head, logs, r.ctx.t0, outcome)
             r1  == [r EXCEPT !.tt = tt1, !.cnt = NoCount, !.ctx.startBalance = tt1.startBalance,
                              !.wt = [NewWhaleTrades("virtuals_curve")
                                        EXCEPT !.isRunning = TRUE, !.ws = c]]
             r2  == startMonitor(r1, c, t, outcome # "connectFails")
         IN  IF r2.threw THEN r2 ELSE transition(r2, LAUNCH_WINDOW)

NoFault == [at |-> 0, kind |-> "ok"]

\* one update() of the tracker inside a tick; the tick keeps the number of its
\* update() calls and the widest block range one of them processed
tickUpdate(r, outcome) ==
    LET u == taxUpdate(r.tt, head, logs, r.idx, outcome)
        r1 == [r EXCEPT !.tt = u.tt, !.cnt = Count(r.cnt, u.added), !.idx = u.idx,
                        !.calls = @ + 1,
                        !.span = Max(@, u.tt.lastProcessedBlock - r.tt.lastProcessedBlock)]
    IN  IF u.threw THEN Throw(r1, outcome) ELSE r1

\* F applied to the value of v, which is computed once
Then(v, F(_)) == CHOOSE y \in {F(x) : x \in {v}} : TRUE

\* no catch-up loop: the refresh is the normal update alone
moreCatchUp_Never(latestBlock, currentBlock, rounds) == FALSE

\* the loop condition without the limit on rounds
moreCatchUp_NoLimit(latestBlock, currentBlock, rounds) ==
    latestBlock - currentBlock > catchUpBacklog

\* while (latestBlock - progress.currentBlock > 2000 && rounds < maxCatchUpRounds)
moreCatchUp(latestBlock, currentBlock, rounds) ==
    latestBlock - currentBlock > catchUpBacklog /\ rounds < maxCatchUpRounds

RECURSIVE catchUp(_, _, _, _)
\* the refresh of handleLaunchWindow(): the catch-up loop and the normal
\* update; call number fault.at (if made) fails the way fault.kind says,
\* "headReadFails" being the loop's own getBlockNumber() after that update
catchUp(r, rounds, callNo, fault) ==
    LET kind == IF callNo = fault.at /\ fault.kind # "headReadFails" THEN fault.kind ELSE "ok"
        afterUpdate(r1) ==
            IF r1.threw THEN r1
            ELSE IF callNo = fault.at /\ fault.kind = "headReadFails" THEN Throw(r1, "headReadFails")
            ELSE catchUp(r1, rounds + 1, callNo + 1, fault)
    IN  IF moreCatchUp(head, r.tt.lastProcessedBlock, rounds)
        THEN Then(tickUpdate(r, kind), afterUpdate)
        ELSE tickUpdate(r, kind)

\* a status check on every tick
statusCheckDue_Always(r) == TRUE

\* the catalog status check shared by handleLaunchWindow and handleBuybackPhase
\* is due; the tick records what the lookup it made gave in chk ("graduated":
\* status AVAILABLE or an lpAddress, "undergrad", "none", or "fails")
statusCheckDue(r) ==
    r.lpsc = NULL \/ now - r.lpsc >= projectStatusCheckIntervalMs

\* what the fault makes of the first update() of a tick
FirstUpdate(fault) == IF fault.at = 1 /\ fault.kind # "headReadFails" THEN fault.kind ELSE "ok"

\* the T1 branch with the transition made before the final update()
closeWindow_TransitionFirst(r, fault) ==
    LET r1 == tickUpdate(transition(r, BUYBACK_PHASE), FirstUpdate(fault))
    IN  IF r1.threw THEN r1
        ELSE [r1 EXCEPT !.ctx.taxTotal = r1.tt.netInflow, !.api.taxTotal = r1.tt.netInflow,
                        !.note = "t1"]

\* handleLaunchWindow(), now >= T1: the final update(), taxTotal, the
\* transition to BUYBACK_PHASE
closeWindow(r, fault) ==
    LET r1 == tickUpdate(r, FirstUpdate(fault))
    IN  IF r1.threw THEN r1
        ELSE [transition([r1 EXCEPT !.ctx.taxTotal = r1.tt.netInflow], BUYBACK_PHASE)
                 EXCEPT !.note = "t1"]

\* handleLaunchWindow()
handleLaunchWindow(r, fault, lookup) ==
    IF r.ctx.project = NULL \/ r.ctx.t1 = NULL \/ ~r.tt.present
    THEN [transition(r, DISCOVER) EXCEPT !.note = "fallback"]
    ELSE IF now >= r.ctx.t1
    THEN closeWindow(r, fault)
    ELSE LET due == r.ctx.lastTaxUpdate = NULL \/ now - r.ctx.lastTaxUpdate >= taxUpdateInterval
             r1 == IF ~due THEN r
                   ELSE IF fault.at = 0 /\ fault.kind = "headReadFails" THEN Throw(r, "headReadFails")
                   ELSE LET c == catchUp(r, 0, 1, fault)
                        IN  IF c.threw THEN c ELSE [c EXCEPT !.ctx.lastTaxUpdate = now]
         IN  IF r1.threw THEN r1
             ELSE IF ~statusCheckDue(r1) THEN r1
             ELSE LET r2 == [r1 EXCEPT !.lpsc = now, !.chk = lookup] IN
                  IF lookup = "graduated"
                  THEN [transition(r2, DONE) EXCEPT !.note = "graduated"]
                  ELSE r2

\* BuybackTracker.getStatus(): progress is Number(spentTotal * 10000n / taxTotal)
\* / 100, kept here in hundredths of a percent
getStatus(bt) ==
    [spentTotal |-> bt.spentTotal,
     remaining |-> IF bt.taxTotal > bt.spentTotal THEN bt.taxTotal - bt.spentTotal ELSE 0,
     progress |-> IF bt.taxTotal > 0 THEN (bt.spentTotal * 10000) \div bt.taxTotal ELSE 0]

\* isComplete() that asks for more than the budget
isComplete_Strict(bt) == bt.spentTotal > bt.taxTotal

\* BuybackTracker.isComplete()
isComplete(bt) == bt.spentTotal >= bt.taxTotal

\* BuybackTracker.isStalled()
isStalled(bt) ==
    IF bt.spentTotal >= bt.taxTotal THEN FALSE
    ELSE IF bt.lastSpentTime = 0 THEN FALSE
    ELSE now - bt.lastSpentTime > StallAlertMinutes * 60 * 1000

\* checkStall() calls onStall(); the machine always supplies onStall
callsOnStall(bt) == isStalled(bt) /\ ~bt.stallAlerted

\* checkStall() that forgets the alert it gave
checkStall_NoFlag(bt) == bt

\* BuybackTracker.checkStall()
checkStall(bt) == IF callsOnStall(bt) THEN [bt EXCEPT !.stallAlerted = TRUE] ELSE bt

\* the count of onStall() calls after checkStall() on bt
signalled(sig, bt) ==
    IF callsOnStall(bt) THEN [episode |-> sig.episode + 1, total |-> sig.total + 1] ELSE sig

\* recordSpent(amount, txHash)
recordSpent(bt, amount, txHash) ==
    LET windowStart == now - buybackRateWindowMinutes * 60 * 1000
        pushed == Append(bt.spentHistory, [time |-> now, amount |-> amount, txHash |-> txHash])
    IN  [bt EXCEPT !.spentTotal = @ + amount, !.lastSpentTime = now, !.stallAlerted = FALSE,
                   !.spentHistory = SelectSeq(pushed, LAMBDA h : h.time >= windowStart)]

RECURSIVE recordSpentBy(_, _, _, _)
\* the Transfer listener of the scanner run by each of n attached handlers
recordSpentBy(bt, amount, txHash, n) ==
    IF n = 0 THEN bt ELSE recordSpentBy(recordSpent(bt, amount, txHash), amount, txHash, n - 1)

\* handleBuybackPhase()
handleBuybackPhase(r, connects, lookup, c, t) ==
    IF r.ctx.project = NULL THEN [transition(r, DISCOVER) EXCEPT !.note = "fallback"]
    ELSE LET r1 == IF r.bt.present THEN r
                   ELSE startMonitor(
                            [r EXCEPT !.bt = [NewBuybackTracker(r.ctx.taxTotal)
                                                EXCEPT !.isRunning = TRUE, !.ws = c]],
                            c, t, connects)
         IN  IF r1.threw THEN r1
             ELSE IF isComplete(r1.bt) THEN [transition(r1, DONE) EXCEPT !.note = "complete"]
             ELSE IF statusCheckDue(r1) /\ lookup = "graduated"
             THEN [transition([r1 EXCEPT !.lpsc = now, !.chk = lookup], DONE)
                     EXCEPT !.note = "graduated"]
             ELSE LET r2 == IF statusCheckDue(r1) THEN [r1 EXCEPT !.lpsc = now, !.chk = lookup]
                            ELSE r1
                      due == r2.ctx.lastBuybackUpdate = NULL
                             \/ now - r2.ctx.lastBuybackUpdate >= buybackUpdateInterval
                  IN  IF due THEN [r2 EXCEPT !.ctx.lastBuybackUpdate = now, !.bt = checkStall(r2.bt),
                                             !.sig = signalled(r2.sig, r2.bt)]
                      ELSE r2

\* handleDone(): with a project and a spend scanner it publishes the final
\* status and calls sendComplete() once, then cleans up and resets the context
\* (note "reset"); without one of them it only cleans up and goes back to
\* DISCOVER (note "noScanner")
handleDone(r) ==
    IF r.ctx.project = NULL \/ ~r.bt.present
    THEN [transition(cleanup(r), DISCOVER) EXCEPT !.note = "noScanner"]
    ELSE [cleanup(r) EXCEPT !.ctx = ResetContext, !.note = "reset"]

\* ------------------------------------------------ state machine actions
MaxAdvances == 2

MaxSpent == 6

StartNow == BlockTimeMs(HeadStart)

TimeSteps == {3 * MinuteMs}

\* the catalog's candidates: T0 (launchedAt) of project p, 97 min before the
\* start, 200 min before it (its tax window is over), or 2 min after it
LaunchedAt(p) ==
    CASE p = 1 -> StartNow - 97 * MinuteMs
      [] p = 2 -> StartNow - 200 * MinuteMs
      [] OTHER -> StartNow + 2 * MinuteMs

MaxFaultAt == 2

Faults ==
    {NoFault, [at |-> 0, kind |-> "headReadFails"]} \cup
    [at : 1..MaxFaultAt,
     kind : {"blockNumberFails", "queryFails", "balanceFails", "headReadFails"}]

Lookups == {"graduated", "undergrad", "none", "fails"}

\* the loop of start() is running
Running == ~aborted /\ ~stopped

\* the tick ends with the state r; on success start() counts the tick and
\* every 60th tick pushes the context to the health server once more
EndTick(r, pre) ==
    /\ r.threw => faults < MaxFaults
    /\ context' = r.ctx
    /\ taxTracker' = r.tt
    /\ counted' = r.cnt
    /\ httpIndex' = r.idx
    /\ whaleTrades' = r.wt
    /\ buybackTracker' = r.bt
    /\ ws' = r.ws
    /\ transport' = r.tr
    /\ InPool(MaxTransports)
    /\ api' = r.api
    /\ health' \in {r.health, IF r.threw THEN r.health ELSE updateState(r.ctx)}
    /\ lastProjectStatusCheck' = r.lpsc
    /\ faults' = IF r.threw THEN faults + 1 ELSE faults
    /\ last' = [Op("tick", NULL, NULL, ~r.threw) EXCEPT !.pre = pre, !.note = r.note,
                                                        !.chk = r.chk, !.calls = r.calls,
                                                        !.span = r.span]
    /\ stallSignals' = r.sig
    /\ UNCHANGED <<task, head, logs, now, aborted, stopped, tradeHistory, emitted, discovery, svcVars>>

TickDiscover ==
    /\ Running /\ context.state = DISCOVER
    /\ \E p \in ProjectIds, found \in BOOLEAN :
          /\ ~found => faults < MaxFaults
          /\ EndTick(handleDiscover(TickStart, p, LaunchedAt(p), found), DISCOVER)

TickWaitT0 ==
    /\ Running /\ context.state = WAIT_T0
    /\ \E outcome \in {"ok", "balanceFails", "blockMissing", "timeToBlockFails", "connectFails"} :
          IF outcome = "timeToBlockFails"
          THEN EndTick(handleWaitT0(TickStart, outcome, NULL, NULL), WAIT_T0)
          ELSE /\ UnusedClients(ws) # {} /\ UnusedTransports(transport) # {}
               /\ EndTick(handleWaitT0(TickStart, outcome, FreshClient(ws), FreshTransport(transport)),
                          WAIT_T0)

TickLaunchWindow ==
    /\ Running /\ context.state = LAUNCH_WINDOW
    /\ \E fault \in Faults, lookup \in Lookups :
          /\ fault # NoFault => faults < MaxFaults
          /\ EndTick(handleLaunchWindow(TickStart, fault, lookup), LAUNCH_WINDOW)

TickBuybackPhase ==
    /\ Running /\ context.state = BUYBACK_PHASE
    /\ \E connects \in BOOLEAN, lookup \in Lookups :
          IF buybackTracker.present
          THEN /\ connects
               /\ EndTick(handleBuybackPhase(TickStart, connects, lookup, NULL, NULL), BUYBACK_PHASE)
          ELSE /\ UnusedClients(ws) # {} /\ UnusedTransports(transport) # {}
               /\ EndTick(handleBuybackPhase(TickStart, connects, lookup,
                                             FreshClient(ws), FreshTransport(transport)),
                          BUYBACK_PHASE)

TickDone ==
    /\ Running /\ context.state = DONE
    /\ EndTick(handleDone(TickStart), DONE)

\* stop(): abortController.abort()
Stop ==
    /\ ~aborted
    /\ aborted' = TRUE
    /\ last' = Op("stop", NULL, NULL, TRUE)
    /\ UNCHANGED <<wsVars, taxVars, now, context, whaleTrades, buybackTracker,
                   lastProjectStatusCheck, stopped, api, health,
                   tradeHistory, emitted, discovery, svcVars, stallSignals>>

\* start() leaves its loop: await this.cleanup()
LoopExit ==
    /\ aborted /\ ~stopped
    /\ LET r == cleanup([TickStart EXCEPT !.api = api, !.health = health]) IN
       /\ taxTracker' = r.tt
       /\ whaleTrades' = r.wt
       /\ buybackTracker' = r.bt
       /\ ws' = r.ws
       /\ transport' = r.tr
    /\ stopped' = TRUE
    /\ last' = Op("loopExit", NULL, NULL, TRUE)
    /\ UNCHANGED <<task, head, logs, httpIndex, counted, faults, now, context,
                   lastProjectStatusCheck, aborted, api, health,
                   tradeHistory, emitted, discovery, svcVars, stallSignals>>

\* time passes and the chain grows with it
Advance(d) ==
    /\ now + d <= StartNow + MaxAdvances * 3 * MinuteMs
    /\ now' = now + d
    /\ head' = head + d \div (ChainBlockSecs * 1000)
    /\ last' = Op("advance", NULL, NULL, TRUE)
    /\ UNCHANGED <<wsVars, logs, httpIndex, taxTracker, counted, faults, context, whaleTrades,
                   buybackTracker, lastProjectStatusCheck, aborted, stopped, api, health,
                   tradeHistory, emitted, discovery, svcVars, stallSignals>>

\* number of listeners of subscription s of client c that a live event reaches
Deliveries(c, s) ==
    LET n[t \in {0} \cup TransportIds] ==
            IF t = 0 THEN 0
            ELSE n[t - 1] + (IF transport[t].owner = c /\ transport[t].status = "open"
                             THEN transport[t].listeners[s] ELSE 0)
    IN  n[Max(MaxTransports, MaxAttempts)]

\* the receiver sends v in a new transaction (its hash is the number of the
\* receiver's transactions so far): the Transfer event reaches the spend
\* scanner's listeners
Spend(v) ==
    /\ buybackTracker.present /\ buybackTracker.ws # NULL
    /\ Deliveries(buybackTracker.ws, 1) > 0
    /\ buybackTracker.spentTotal + v * Deliveries(buybackTracker.ws, 1) <= MaxSpent
    /\ buybackTracker' = recordSpentBy(buybackTracker, v, buybackTracker.spentTotal \div v + 1,
                                       Deliveries(buybackTracker.ws, 1))
    /\ stallSignals' = [stallSignals EXCEPT !.episode = 0]
    /\ last' = Op("spend", NULL, NULL, TRUE)
    /\ UNCHANGED <<wsVars, taxVars, now, context, whaleTrades, lastProjectStatusCheck,
                   aborted, stopped, api, health, tradeHistory, emitted, discovery, svcVars>>

\* ------------------------------------------------ whale detector actions
MaxEmitted == 5

RECURSIVE EmittedUpTo(_, _)
\* calls of the trade callback for the hashes 1..n
EmittedUpTo(em, n) == IF n = 0 THEN 0 ELSE em[n] + EmittedUpTo(em, n - 1)

\* a listener of the detector has run with the result r on event e: an
\* emitted trade goes to the callback given to start(), which records it
Emit(r, op, e) ==
    /\ r.emits => EmittedUpTo(emitted, MaxHashes) < MaxEmitted
    /\ whaleTrades' = r.wt
    /\ tradeHistory' = IF r.emits THEN recordTrade(tradeHistory, r.trade) ELSE tradeHistory
    /\ emitted' = IF r.emits THEN [emitted EXCEPT ![e.txHash] = @ + 1] ELSE emitted
    /\ last' = [Op(op, NULL, NULL, r.emits) EXCEPT !.e = e]
    /\ UNCHANGED <<wsVars, taxVars, now, context, buybackTracker, lastProjectStatusCheck,
                   aborted, stopped, api, health, stallSignals, discovery, svcVars>>

\* the pair emits Swap event e and the detector's listener runs
SwapSeen(e) ==
    /\ whaleTrades.present /\ whaleTrades.isRunning
    /\ whaleTrades.poolType = "uniswap_v2"
    /\ Deliveries(whaleTrades.ws, 1) > 0
    /\ Emit(handleSwap(whaleTrades, e, head, now), "swap", e)

\* the base token emits Transfer event e and the detector's listener runs
TransferSeen(e) ==
    /\ whaleTrades.present /\ whaleTrades.isRunning
    /\ whaleTrades.poolType = "virtuals_curve"
    /\ Deliveries(whaleTrades.ws, 1) > 0
    /\ Emit(handleTransfer(whaleTrades, e, head, now), "transfer", e)

\* WhaleTrades.stop()
StopWhale ==
    /\ whaleTrades.present /\ whaleTrades.isRunning
    /\ LET d == destroy(ws, transport, whaleTrades.ws) IN
       /\ ws' = d.ws
       /\ transport' = d.tr
    /\ whaleTrades' = [whaleTrades EXCEPT !.isRunning = FALSE, !.ws = NULL, !.lruCache = <<>>]
    /\ last' = Op("stopWhale", NULL, NULL, TRUE)
    /\ UNCHANGED <<task, taxVars, now, context, buybackTracker, lastProjectStatusCheck,
                   aborted, stopped, api, health, tradeHistory, emitted, discovery, svcVars, stallSignals>>

\* ---------------------------------------------------- API server actions
\* a caller hands trade to recordTrade() of a server without push sockets
RecordTrade(trade) ==
    /\ tradeHistory' = recordTrade(tradeHistory, trade)
    /\ last' = Op("recordTrade", NULL, trade.txHash, TRUE)
    /\ UNCHANGED <<wsVars, taxVars, now, context, whaleTrades, buybackTracker,
                   lastProjectStatusCheck, aborted, stopped, api, health, emitted, stallSignals,
                   discovery, svcVars>>

\* -------------------------------------------------- spend scanner actions
MaxElapse == 8

\* the scanner's Transfer listener runs on event e
SpendSeen(e) ==
    /\ buybackTracker.present /\ buybackTracker.isRunning
    /\ Deliveries(buybackTracker.ws, 1) > 0
    /\ buybackTracker.spentTotal + e.value <= MaxSpent
    /\ IF e.from = RECEIVER
       THEN /\ buybackTracker' = recordSpent(buybackTracker, e.value, e.txHash)
            /\ stallSignals' = [stallSignals EXCEPT !.episode = 0]
       ELSE UNCHANGED <<buybackTracker, stallSignals>>
    /\ last' = [Op("spendSeen", NULL, NULL, e.from = RECEIVER) EXCEPT !.e = e]
    /\ UNCHANGED <<wsVars, taxVars, now, context, whaleTrades, lastProjectStatusCheck,
                   aborted, stopped, api, health, tradeHistory, emitted, discovery, svcVars>>

\* the owner calls checkStall()
CheckStall ==
    /\ buybackTracker.present /\ buybackTracker.isRunning
    /\ buybackTracker' = checkStall(buybackTracker)
    /\ stallSignals' = signalled(stallSignals, buybackTracker)
    /\ last' = Op("checkStall", NULL, NULL, callsOnStall(buybackTracker))
    /\ UNCHANGED <<wsVars, taxVars, now, context, whaleTrades, lastProjectStatusCheck,
                   aborted, stopped, api, health, tradeHistory, emitted, discovery, svcVars>>

\* time passes
Elapse(d) ==
    /\ now + d <= StartNow + MaxElapse * 3 * MinuteMs
    /\ now' = now + d
    /\ last' = Op("elapse", NULL, NULL, TRUE)
    /\ UNCHANGED <<wsVars, taxVars, context, whaleTrades, buybackTracker, lastProjectStatusCheck,
                   aborted, stopped, api, health, tradeHistory, emitted, discovery, svcVars, stallSignals>>

\* ------------------------------------------------------- catalog client
\* polls of one call whose two requests succeed (failed polls end the call at
\* maxConsecutiveErrors in a row)
MaxPolls == 2

MaxListed == 2

\* parseTimestamp() gave null: the field is missing or is no date
Absent == -1

maxConsecutiveErrors == 10

\* config.virtuals.pollIntervalMs
pollIntervalMs == 5000

\* the catalog's projects (VirtualsAgent), timestamps as parseTimestamp()
\* returns them: two with the same T0 inside the tax window (one of them dated
\* by createdAt only), two preferred-ticker projects with the same T0 whose
\* window is over, one not yet launched, and three that are not candidates
\* (graduated, launchedAt at the epoch, no preTokenPair)
Agents ==
    LET A(id, st, pair, lp, la, lc, cr, sym) ==
            [id |-> id, status |-> st, preTokenPair |-> pair, lpAddress |-> lp,
             launchedAt |-> la, lpCreatedAt |-> lc, createdAt |-> cr, symbol |-> sym]
    IN  << A(1, "UNDERGRAD", TRUE, FALSE, StartNow - 97 * MinuteMs, Absent,
               StartNow - 300 * MinuteMs, "AAA"),
           A(2, "UNDERGRAD", TRUE, FALSE, StartNow - 200 * MinuteMs, Absent,
               StartNow - 400 * MinuteMs, "ORION"),
           A(3, "UNDERGRAD", TRUE, FALSE, Absent, Absent, StartNow - 97 * MinuteMs, "BBB"),
           A(4, "AVAILABLE", TRUE, TRUE, StartNow - 10 * MinuteMs, StartNow - 5 * MinuteMs,
               StartNow - 50 * MinuteMs, "ORION"),
           A(5, "UNDERGRAD", TRUE, FALSE, 0, StartNow - 5 * MinuteMs, StartNow - 50 * MinuteMs,
               "CCC"),
           A(6, "UNDERGRAD", FALSE, FALSE, StartNow - 20 * MinuteMs, Absent,
               StartNow - 50 * MinuteMs, "ORION"),
           A(7, "UNDERGRAD", TRUE, FALSE, Absent, StartNow - 200 * MinuteMs,
               StartNow - 500 * MinuteMs, "ORION"),
           A(8, "UNDERGRAD", TRUE, FALSE, StartNow + 2 * MinuteMs, Absent, Absent, "DDD") >>

\* one page of the catalog: up to n different projects in some order
Listings(n) ==
    {[i \in DOMAIN ix |-> Agents[ix[i]]] :
        ix \in {f \in UNION {[1..k -> DOMAIN Agents] : k \in 0..n} :
                  \A i, j \in DOMAIN f : i # j => f[i] # f[j]}}

\* the anchor that reads createdAt alone
t0For_CreatedOnly(a) == IF a.createdAt # Absent THEN a.createdAt ELSE 0

\* t0For: launchedTs(a) ?? lpCreatedTs(a) ?? createdTs(a), createdTs being
\* parseTimestamp(createdAt) ?? 0
t0For(a) ==
    IF a.launchedAt # Absent THEN a.launchedAt
    ELSE IF a.lpCreatedAt # Absent THEN a.lpCreatedAt
    ELSE IF a.createdAt # Absent THEN a.createdAt
    ELSE 0

RECURSIVE sortByT0(_)
\* list.sort((a, b) => b.t0 - a.t0): descending, equal T0 keep their order
sortByT0(list) ==
    IF Len(list) <= 1 THEN list
    ELSE LET m == CHOOSE i \in 1..Len(list) :
                     /\ \A j \in 1..Len(list) : t0For(list[j]) <= t0For(list[i])
                     /\ \A j \in 1..(i - 1) : t0For(list[j]) < t0For(list[i])
         IN  <<list[m]>> \o sortByT0(SubSeq(list, 1, m - 1) \o SubSeq(list, m + 1, Len(list)))

\* selectProject() returned null
NoProject == [id |-> NULL, t0 |-> 0]

\* selectProject(agents) at time t
selectProject(agents, t) ==
    LET withT0 == SelectSeq(agents, LAMBDA a : /\ a.status = "UNDERGRAD"
                                               /\ a.preTokenPair /\ ~a.lpAddress
                                               /\ t0For(a) > 0)
        inWindow == SelectSeq(withT0, LAMBDA a : /\ t0For(a) <= t
                                                 /\ t <= t0For(a) + TaxWindowMinutes * 60 * 1000)
        list == sortByT0(IF Len(inWindow) > 0 THEN inWindow ELSE withT0)
        orion == SelectSeq(list, LAMBDA a : a.symbol = "ORION")
        picked == IF Len(orion) > 0 THEN orion[1] ELSE list[1]
    IN  IF Len(withT0) = 0 THEN NoProject ELSE [id |-> picked.id, t0 |-> t0For(picked)]

\* byId: the first entry of each id, in the order met
mergeById(list) ==
    LET keep == {i \in 1..Len(list) : \A j \in 1..(i - 1) : list[j].id # list[i].id}
        F[i \in 0..Len(list)] ==
            IF i = 0 THEN <<>> ELSE IF i \in keep THEN Append(F[i - 1], list[i]) ELSE F[i - 1]
    IN  F[Len(list)]

\* the delay without its ceiling
backoffDelay_Uncapped(consecutiveErrors) == 1000 * 2 ^ consecutiveErrors

\* Math.min(1000 * Math.pow(2, consecutiveErrors), 30000)
backoffDelay(consecutiveErrors) == Min(1000 * 2 ^ consecutiveErrors, 30000)

\* no call of discoverProject() is running.  Of a call: its consecutiveErrors,
\* how it stands ("polling", "selected": onFound was called and it returned,
\* "fatal": it raised), the calls of onFound, the sleep that ended its last
\* iteration (0: none), the project it handed over; and of its polls: the
\* number that fetched both pages, the failed ones in a row up to now, the
\* merged list of the last
NoDiscovery ==
    [status |-> "idle", consecutiveErrors |-> 0, callbacks |-> 0, slept |-> 0,
     selected |-> NoProject, polls |-> 0, streak |-> 0, agents |-> <<>>]

\* one iteration of the loop of discoverProject(): the two pages are fetched
\* and merged into agents, or a fetch raises
discoverProject(d, fetched, agents, t) ==
    IF fetched
    THEN LET selected == selectProject(agents, t) IN
         IF selected # NoProject
         THEN [d EXCEPT !.consecutiveErrors = 0, !.status = "selected", !.callbacks = @ + 1,
                        !.selected = selected, !.slept = 0]
         ELSE [d EXCEPT !.consecutiveErrors = 0, !.slept = pollIntervalMs]
    ELSE LET n == d.consecutiveErrors + 1 IN
         IF n >= maxConsecutiveErrors
         THEN [d EXCEPT !.consecutiveErrors = n, !.status = "fatal", !.slept = 0]
         ELSE [d EXCEPT !.consecutiveErrors = n, !.slept = backoffDelay(n)]

\* the next iteration of the running call: byLaunched and byCreated are what
\* the two requests return when both succeed
DiscoverPoll(fetched, byLaunched, byCreated) ==
    /\ discovery.status = "polling"
    /\ fetched => discovery.polls < MaxPolls
    /\ LET agents == mergeById(byLaunched \o byCreated) IN
       discovery' = [discoverProject(discovery, fetched, agents, now)
                        EXCEPT !.polls = IF fetched THEN @ + 1 ELSE @,
                               !.streak = IF fetched THEN 0 ELSE @ + 1,
                               !.agents = IF fetched THEN agents ELSE <<>>]
    /\ last' = Op("poll", NULL, NULL, fetched)
    /\ UNCHANGED <<wsVars, taxVars, now, context, whaleTrades, buybackTracker,
                   lastProjectStatusCheck, aborted, stopped, api, health,
                   tradeHistory, emitted, stallSignals, svcVars>>

\* ---------------------------------------------- upcoming launches cache
MaxCallers == 2

\* aggregate fetches started in one run
MaxFetches == 3

CallerIds == 1..MaxCallers

cacheTtlMs == 30000

\* upcomingCache = null
NoCache == [present |-> FALSE, ts |-> 0, data |-> 0]

\* a caller of getUpcomingLaunches(): "idle", "waiting" on promise `on`, or
\* "got" the list data (ok) or the error (~ok)
NoCaller == [st |-> "idle", on |-> NULL, ok |-> TRUE, data |-> 0]

\* a new VirtualsApi: no cache, upcomingInFlight = null (a promise is the
\* number of the aggregation that made it), no aggregation running, none
\* started; okAt and okData keep when the last aggregation succeeded and what
\* it gave
NoUpcoming ==
    [cache |-> NoCache, inFlight |-> NULL, pending |-> {}, started |-> 0,
     caller |-> [c \in CallerIds |-> NoCaller], okAt |-> NULL, okData |-> 0]

\* a cache that is never used
cacheFresh_Never(u, t) == FALSE

\* this.upcomingCache && now - this.upcomingCache.ts < cacheTtlMs
cacheFresh(u, t) == u.cache.present /\ t - u.cache.ts < cacheTtlMs

\* getUpcomingLaunches() up to its first suspension, called by c at time t
getUpcomingLaunches(u, c, t) ==
    IF cacheFresh(u, t)
    THEN [u EXCEPT !.caller[c] = [st |-> "got", on |-> NULL, ok |-> TRUE, data |-> u.cache.data]]
    ELSE IF u.inFlight # NULL
    THEN [u EXCEPT !.caller[c] = [NoCaller EXCEPT !.st = "waiting", !.on = u.inFlight]]
    ELSE LET id == u.started + 1 IN
         [u EXCEPT !.inFlight = id, !.started = id, !.pending = @ \cup {id},
                   !.caller[c] = [NoCaller EXCEPT !.st = "waiting", !.on = id]]

\* aggregation id settles at time t: on success the async function stores the
\* cache and the promise gives data, else it rejects; the caller that made it
\* runs its finally, and every caller awaiting the promise gets its outcome
settleUpcoming(u, id, ok, data, t) ==
    [u EXCEPT !.cache = IF ok THEN [present |-> TRUE, ts |-> t, data |-> data] ELSE @,
              !.pending = @ \ {id},
              !.inFlight = NULL,
              !.okAt = IF ok THEN t ELSE @,
              !.okData = IF ok THEN data ELSE @,
              !.caller = [c \in CallerIds |->
                            IF @[c].st = "waiting" /\ @[c].on = id
                            THEN [st |-> "got", on |-> id, ok |-> ok,
                                  data |-> IF ok THEN data ELSE 0]
                            ELSE @[c]]]

GetUpcoming(c) ==
    /\ upcoming.caller[c].st # "waiting"
    /\ upcoming' = getUpcomingLaunches(upcoming, c, now)
    /\ upcoming'.started <= MaxFetches
    /\ last' = Op("getUpcoming", c, NULL, TRUE)
    /\ UNCHANGED <<wsVars, taxVars, now, context, whaleTrades, buybackTracker,
                   lastProjectStatusCheck, aborted, stopped, api, health, tradeHistory,
                   emitted, discovery, stallSignals, push, rpcCall, proc>>

\* the three factory listings of aggregation id have all arrived (the merged
\* and filtered list is number data), or one of them failed
UpcomingSettle(id, ok, data) ==
    /\ id \in upcoming.pending
    /\ upcoming' = settleUpcoming(upcoming, id, ok, data, now)
    /\ last' = Op("upcomingSettle", NULL, id, ok)
    /\ UNCHANGED <<wsVars, taxVars, now, context, whaleTrades, buybackTracker,
                   lastProjectStatusCheck, aborted, stopped, api, health, tradeHistory,
                   emitted, discovery, stallSignals, push, rpcCall, proc>>

\* ------------------------------------------------ API server push sockets
MaxPush == 2

\* broadcast() calls of one run
MaxBroadcasts == 3

PushIds == 1..MaxPush

\* a push socket: "none" (not connected yet), "open" (in ApiServer.clients,
\* readyState OPEN) or "closed"; the messages sent to it, in order; and, kept
\* at its connection, the number of broadcasts before it and the snapshot
NoSocket == [state |-> "none", inbox |-> <<>>, since |-> 0, snapshot |-> ""]

\* a started ApiServer without connections; issued keeps every event handed
\* to broadcast(), oldest first, and prevState the phase of the context of
\* the last updateContext() call (none yet: the initial currentState)
NoPush ==
    [clients |-> [p \in PushIds |-> NoSocket], issued |-> <<>>, prevState |-> DISCOVER]

\* an ApiEvent: a state_change carries the snapshot's phase, a whale_trade the
\* transaction hash
ApiEvent(type, state, txHash) == [type |-> type, state |-> state, txHash |-> txHash]

\* getStateSnapshot()
getStateSnapshot(a) == a.currentState

\* a broadcast that reaches nobody
receives_None(sock) == FALSE

\* the socket is in this.clients and client.readyState === WebSocket.OPEN
receives(sock) == sock.state = "open"

\* broadcast(event)
broadcast(p, event) ==
    [p EXCEPT !.issued = Append(@, event),
              !.clients = [c \in PushIds |->
                             IF receives(@[c]) THEN [@[c] EXCEPT !.inbox = Append(@, event)]
                             ELSE @[c]]]

\* an updateContext() that always broadcasts
stateChanged_Always(a, ctx) == TRUE

\* const stateChanged = this.currentState !== context.state
stateChanged(a, ctx) == a.currentState # ctx.state

\* the server's 'connection' handler runs for socket c
PushConnect(c) ==
    /\ push.clients[c].state = "none"
    /\ push' = [push EXCEPT !.clients[c] =
                   [state |-> "open",
                    inbox |-> <<ApiEvent("state_change", getStateSnapshot(api), NULL)>>,
                    since |-> Len(push.issued), snapshot |-> getStateSnapshot(api)]]
    /\ last' = Op("pushConnect", c, NULL, TRUE)
    /\ UNCHANGED <<wsVars, taxVars, now, context, whaleTrades, buybackTracker,
                   lastProjectStatusCheck, aborted, stopped, api, health, tradeHistory,
                   emitted, discovery, stallSignals, upcoming, rpcCall, proc>>

\* socket c closes and its 'close' handler removes it from this.clients
PushClose(c) ==
    /\ push.clients[c].state = "open"
    /\ push' = [push EXCEPT !.clients[c].state = "closed"]
    /\ last' = Op("pushClose", c, NULL, TRUE)
    /\ UNCHANGED <<wsVars, taxVars, now, context, whaleTrades, buybackTracker,
                   lastProjectStatusCheck, aborted, stopped, api, health, tradeHistory,
                   emitted, discovery, stallSignals, upcoming, rpcCall, proc>>

\* a caller hands ctx to ApiServer.updateContext()
UpdateContext(ctx) ==
    /\ api' = updateContext(ctx)
    /\ LET p == [push EXCEPT !.prevState = ctx.state] IN
       push' = IF stateChanged(api, ctx)
               THEN broadcast(p, ApiEvent("state_change", getStateSnapshot(api'), NULL))
               ELSE p
    /\ Len(push'.issued) <= MaxBroadcasts
    /\ last' = [Op("updateContext", NULL, NULL, TRUE) EXCEPT !.pre = push.prevState,
                                                              !.note = ctx.state]
    /\ UNCHANGED <<wsVars, taxVars, now, context, whaleTrades, buybackTracker,
                   lastProjectStatusCheck, aborted, stopped, health, tradeHistory,
                   emitted, discovery, stallSignals, upcoming, rpcCall, proc>>

\* recordTrade(trade) with push sockets connected
PushTrade(trade) ==
    /\ tradeHistory' = recordTrade(tradeHistory, trade)
    /\ push' = broadcast(push, ApiEvent("whale_trade", "", trade.txHash))
    /\ Len(push'.issued) <= MaxBroadcasts
    /\ last' = Op("recordTrade", NULL, trade.txHash, TRUE)
    /\ UNCHANGED <<wsVars, taxVars, now, context, whaleTrades, buybackTracker,
                   lastProjectStatusCheck, aborted, stopped, api, health,
                   emitted, discovery, stallSignals, upcoming, rpcCall, proc>>

\* ------------------------------------------------------- RpcPool.call
\* calls of RpcPool.call() running at the same time
MaxCalls == 2

CallIds == 1..MaxCalls

\* the options call() hands to withRetry
initialDelayMs == 500

maxDelayMs == 5000

\* a call of RpcPool.call(): "idle" (not made), "running" its fn on endpoint
\* `on`, "sleeping" before its retry, "ok" or "fatal"; withRetry's attempt and
\* delay; and the endpoints its fn has run on and the sleeps it has made
NoCall ==
    [st |-> "idle", on |-> 0, attempt |-> 0, delay |-> initialDelayMs,
     tried |-> <<>>, slept |-> <<>>]

\* withRetry: the next pass of the loop calls fn, which takes the pool's
\* active provider
attemptStart(call, idx) ==
    [call EXCEPT !.st = "running", !.on = idx, !.attempt = @ + 1, !.tried = Append(@, idx)]

\* withRetry: fn has settled; a failure on the last attempt is thrown, an
\* earlier one runs onRetry (rotateHttp) and sleeps
attemptEnd(call, idx, ok) ==
    IF ok THEN [call |-> [call EXCEPT !.st = "ok"], idx |-> idx]
    ELSE IF call.attempt >= NumHttp THEN [call |-> [call EXCEPT !.st = "fatal"], idx |-> idx]
    ELSE [call |-> [call EXCEPT !.st = "sleeping", !.slept = Append(@, call.delay),
                                !.delay = Min(2 * @, maxDelayMs)],
          idx |-> rotateHttp(idx)]

\* call k is made, or its sleep is over: fn is called
RpcAttempt(k) ==
    /\ rpcCall[k].st \in {"idle", "sleeping"}
    /\ rpcCall' = [rpcCall EXCEPT ![k] = attemptStart(@, httpIndex)]
    /\ last' = Op("rpcAttempt", k, NULL, TRUE)
    /\ UNCHANGED <<wsVars, taxVars, now, context, whaleTrades, buybackTracker,
                   lastProjectStatusCheck, aborted, stopped, api, health, tradeHistory,
                   emitted, discovery, stallSignals, upcoming, push, proc>>

\* the fn of call k returns or raises
RpcSettle(k, ok) ==
    /\ rpcCall[k].st = "running"
    /\ LET e == attemptEnd(rpcCall[k], httpIndex, ok) IN
       /\ rpcCall' = [rpcCall EXCEPT ![k] = e.call]
       /\ httpIndex' = e.idx
    /\ last' = Op("rpcSettle", k, NULL, ok)
    /\ UNCHANGED <<wsVars, head, logs, taxTracker, counted, faults, now, context, whaleTrades,
                   buybackTracker, lastProjectStatusCheck, aborted, stopped, api, health,
                   tradeHistory, emitted, discovery, stallSignals, upcoming, push, proc>>

\* ------------------------------------------------- process and shutdown
\* await sleep(1000) after a tick, await sleep(5000) after a failed one
tickSleepMs == 1000

errorSleepMs == 5000

\* shutdown(): await new Promise((resolve) => setTimeout(resolve, 2000))
shutdownWaitMs == 2000

\* the process: where the loop of start() is suspended ("start": not yet;
\* "tick": in an await of a handler; "poll", "pollSleep", "backoffSleep": in
\* discoverProject()'s fetch or sleeps; "tickSleep", "errorSleep") and the time
\* left of that await; whether shutdown() has been called, the time left of
\* its wait, and whether process.exit() has run
NoProc ==
    [pc |-> "start", rem |-> 0, shutting |-> FALSE, exitIn |-> 0, exited |-> FALSE]

\* the lengths of the awaits of a handler or of a catalog fetch
AwaitMs == {500, 3000}

ProcUnchanged ==
    UNCHANGED <<wsVars, taxVars, now, context, whaleTrades, buybackTracker,
                lastProjectStatusCheck, stopped, api, health, tradeHistory,
                emitted, discovery, stallSignals, upcoming, push, rpcCall>>

\* the loop of start() is suspended and its await is over
LoopAt(pcs) == ~proc.exited /\ ~stopped /\ proc.pc \in pcs /\ proc.rem = 0

\* a SIGINT or SIGTERM: shutdown() calls stateMachine.stop() and starts its wait
Shutdown ==
    /\ ~proc.exited /\ ~proc.shutting
    /\ aborted' = TRUE
    /\ proc' = [proc EXCEPT !.shutting = TRUE, !.exitIn = shutdownWaitMs]
    /\ last' = Op("shutdown", NULL, NULL, TRUE)
    /\ ProcUnchanged

\* shutdown() after its wait: the servers are stopped and process.exit(0) runs
ProcessExit ==
    /\ proc.shutting /\ ~proc.exited /\ proc.exitIn = 0
    /\ proc' = [proc EXCEPT !.exited = TRUE]
    /\ last' = Op("exit", NULL, NULL, TRUE)
    /\ UNCHANGED aborted
    /\ ProcUnchanged

\* d ms pass: no timer is overrun
Pass(d) ==
    /\ ~proc.exited
    /\ ~stopped => d <= proc.rem
    /\ proc.shutting => d <= proc.exitIn
    /\ ~stopped \/ proc.shutting
    /\ proc' = [proc EXCEPT !.rem = IF stopped THEN @ ELSE @ - d,
                            !.exitIn = IF proc.shutting THEN @ - d ELSE @]
    /\ last' = Op("pass", NULL, d, TRUE)
    /\ UNCHANGED aborted
    /\ ProcUnchanged

\* while (!this.abortController.signal.aborted): the next tick begins and
\* reaches its first await (in DISCOVER, the fetch of discoverProject())
TickBegin(ms) ==
    /\ LoopAt({"start", "tickSleep", "errorSleep"}) /\ ~aborted
    /\ proc' = [proc EXCEPT !.pc = IF context.state = DISCOVER THEN "poll" ELSE "tick",
                            !.rem = ms]
    /\ last' = Op("tickBegin", NULL, NULL, TRUE)
    /\ UNCHANGED aborted
    /\ ProcUnchanged

\* the handler returns, or raises into the catch of start(): the loop sleeps
TickEnd(ok) ==
    /\ LoopAt({"tick"})
    /\ proc' = [proc EXCEPT !.pc = IF ok THEN "tickSleep" ELSE "errorSleep",
                            !.rem = IF ok THEN tickSleepMs ELSE errorSleepMs]
    /\ last' = Op("tickEnd", NULL, NULL, ok)
    /\ UNCHANGED aborted
    /\ ProcUnchanged

\* a poll of discoverProject() ends without a candidate ("none": it sleeps
\* pollInterval), fails for the n-th time in a row (it sleeps its back-off) or
\* fails for the last time ("fatal": the error reaches the catch of start())
PollEnd(how, n) ==
    /\ LoopAt({"poll"})
    /\ proc' = [proc EXCEPT
                  !.pc = CASE how = "none" -> "pollSleep"
                           [] how = "fails" -> "backoffSleep"
                           [] OTHER -> "errorSleep",
                  !.rem = CASE how = "none" -> pollIntervalMs
                            [] how = "fails" -> backoffDelay(n)
                            [] OTHER -> errorSleepMs]
    /\ last' = Op("pollEnd", NULL, NULL, how = "none")
    /\ UNCHANGED aborted
    /\ ProcUnchanged

\* the sleep of discoverProject() is over: its loop tests the abort signal and
\* returns (the tick ends and start() sleeps) or polls again
PollWake(ms) ==
    /\ LoopAt({"pollSleep", "backoffSleep"})
    /\ proc' = IF aborted THEN [proc EXCEPT !.pc = "tickSleep", !.rem = tickSleepMs]
               ELSE [proc EXCEPT !.pc = "poll", !.rem = ms]
    /\ last' = Op("pollWake", NULL, NULL, TRUE)
    /\ UNCHANGED aborted
    /\ ProcUnchanged

\* ------------------------------------------------------ idle services


NoServices ==
    /\ upcoming = NoUpcoming
    /\ push = NoPush
    /\ rpcCall = [k \in CallIds |-> NoCall]
    /\ proc = NoProc

\* ------------------------------------------------------- specifications
vars == <<ws, transport, task, last, head, logs, httpIndex, taxTracker, counted, faults,
          now, context, whaleTrades, buybackTracker, lastProjectStatusCheck,
          aborted, stopped, api, health, tradeHistory, emitted, discovery, stallSignals,
          upcoming, push, rpcCall, proc>>

\* a machine that has not selected a project
MachineAtRest ==
    /\ now = StartNow
    /\ context = ResetContext
    /\ lastProjectStatusCheck = NULL
    /\ aborted = FALSE
    /\ stopped = FALSE
    /\ api = updateContext(ResetContext)
    /\ health = updateState(ResetContext)
    /\ tradeHistory = <<>>
    /\ discovery = NoDiscovery
    /\ NoServices
    /\ emitted = [h \in TxHashes |-> 0]
    /\ stallSignals = [episode |-> 0, total |-> 0]

NoMachine ==
    /\ MachineAtRest
    /\ whaleTrades = NoWhaleTrades
    /\ buybackTracker = NoBuybackTracker

NoClients ==
    /\ ws = [c \in ClientIds |-> NoClient]
    /\ transport = [t \in TransportIds |-> NoTransport]
    /\ task = [k \in TaskIds |-> NoTask]

NoChain ==
    /\ head = HeadStart
    /\ logs = ChainA
    /\ httpIndex = 0
    /\ taxTracker = NoTaxTracker
    /\ counted = NoCount
    /\ faults = 0

InitWS ==
    /\ NoChain
    /\ NoMachine
    /\ ws = [c \in ClientIds |-> IF c = 1 THEN NewClient ELSE NoClient]
    /\ transport = [t \in TransportIds |-> NoTransport]
    /\ task = [k \in TaskIds |-> NoTask]
    /\ last = NoOp

StepWS ==
    \/ StartConnect(1)
    \/ \E k \in TaskIds : ConnectSettle(k)
    \/ \E t \in TransportIds : TransportClose(t)
    \/ \E k \in TaskIds : BackoffElapsed(k)
    \/ \E s \in SubIds : AddSubscription(1, s)
    \/ Destroy(1)

NextWS == StepWS /\ InPool(MaxTransports) /\ UNCHANGED taxVars /\ UNCHANGED smVars

SpecWS == InitWS /\ [][NextWS]_vars

NextWSApi ==
    /\ \/ StepWS
       \/ CallConnect(1)
       \/ \E k \in TaskIds : WaitPoll(k)
    /\ InPool(MaxTransports)
    /\ UNCHANGED taxVars
    /\ UNCHANGED smVars

SpecWSApi == InitWS /\ [][NextWSApi]_vars

\* the reconnect cycle alone: the client connects, its socket closes, and
\* reconnect attempts fail or succeed
NextBackoff ==
    /\ \/ StartConnect(1)
       \/ \E k \in TaskIds : ConnectSettle(k)
       \/ \E t \in TransportIds : TransportClose(t)
       \/ \E k \in TaskIds : BackoffElapsed(k)
    /\ UNCHANGED taxVars
    /\ UNCHANGED smVars

SpecBackoff == InitWS /\ [][NextBackoff]_vars

InitTax ==
    /\ NoClients
    /\ NoMachine
    /\ last = NoOp
    /\ head = HeadStart
    /\ logs \in Chains
    /\ httpIndex \in 0..(NumHttp - 1)
    /\ taxTracker = NewTaxTracker(httpIndex)
    /\ counted = NoCount
    /\ faults = 0

NextTax ==
    /\ \/ \E n \in {500, 2500} : ChainAdvance(n)
       \/ \E t0 \in {BlockTimeMs(3000), BlockTimeMs(8850) - 500, BlockTimeMs(9000),
                      BlockTimeMs(9500)},
             o \in {"ok", "balanceFails", "blockMissing", "timeToBlockFails"} :
             TaxInit(t0, o)
       \/ \E o \in {"ok", "blockNumberFails", "queryFails", "balanceFails"} : TaxUpdate(o)
    /\ UNCHANGED wsVars
    /\ UNCHANGED smVars

SpecTax == InitTax /\ [][NextTax]_vars

\* client 1 as the start() of a monitor leaves it: connected on transport 1,
\* one subscription attached
StartedClient ==
    startMonitor([ws |-> [c \in ClientIds |-> NoClient],
                  tr |-> [t \in TransportIds |-> NoTransport], threw |-> FALSE, note |-> ""],
                 1, 1, TRUE)

\* a detector after start(): in AMM-v2 mode token0() has been read
InitWhale ==
    /\ NoChain
    /\ MachineAtRest
    /\ buybackTracker = NoBuybackTracker
    /\ \E poolType \in {"uniswap_v2", "virtuals_curve"}, isToken0 \in BOOLEAN :
          /\ poolType = "virtuals_curve" => ~isToken0
          /\ whaleTrades = [NewWhaleTrades(poolType) EXCEPT !.isRunning = TRUE, !.ws = 1,
                                                             !.virtualIsToken0 = isToken0]
    /\ ws = StartedClient.ws
    /\ transport = StartedClient.tr
    /\ task = [k \in TaskIds |-> NoTask]
    /\ last = NoOp

NextWhale ==
    \/ \E e \in SwapEvents : SwapSeen(e)
    \/ \E e \in TransferEvents : TransferSeen(e)
    \/ StopWhale

SpecWhale == InitWhale /\ [][NextWhale]_vars

InitApi ==
    /\ NoClients
    /\ NoChain
    /\ NoMachine
    /\ last = NoOp

NextApi ==
    \E trade \in [direction : {"BUY", "SELL"}, amountVirtual : {1000, 1500}, amountToken : {0},
                  trader : {TRADER}, txHash : TxHashes, blockNumber : {HeadStart},
                  timestamp : {BlockTimeMs(HeadStart)}] :
        RecordTrade(trade)

SpecApi == InitApi /\ [][NextApi]_vars

\* a spend scanner after start()
InitBuyback ==
    /\ NoChain
    /\ MachineAtRest
    /\ whaleTrades = NoWhaleTrades
    /\ \E taxTotal \in {0, 5} :
          buybackTracker = [NewBuybackTracker(taxTotal) EXCEPT !.isRunning = TRUE, !.ws = 1]
    /\ ws = StartedClient.ws
    /\ transport = StartedClient.tr
    /\ task = [k \in TaskIds |-> NoTask]
    /\ last = NoOp

NextBuyback ==
    \/ \E e \in [from : {RECEIVER, ELSEWHERE}, value : {2}, txHash : {1, 2}] : SpendSeen(e)
    \/ CheckStall
    \/ \E d \in TimeSteps : Elapse(d)

SpecBuyback == InitBuyback /\ [][NextBuyback]_vars

\* the machine as handleWaitT0() leaves it, in LAUNCH_WINDOW before T1, on a
\* chain whose head is some backlog ahead of the tracker's start block 100
InitCatchUp ==
    /\ now = StartNow
    /\ logs \in Chains
    /\ head \in {100 + b : b \in {0, 1500, 2001, 11900, 22000, 22001, 30000}}
    /\ httpIndex = 0
    /\ counted = NoCount
    /\ faults = 0
    /\ taxTracker = [NewTaxTracker(0) EXCEPT !.inited = TRUE, !.blockStart = 100,
                                             !.lastProcessedBlock = 100,
                                             !.startBalance = BalanceAt(logs, 100)]
    /\ \E t0 \in {StartNow - 97 * MinuteMs, StartNow - 90 * MinuteMs} :
          context = [ResetContext EXCEPT !.state = LAUNCH_WINDOW, !.project = 1, !.t0 = t0,
                                         !.t1 = t0 + TaxWindowMinutes * 60 * 1000,
                                         !.startBalance = taxTracker.startBalance]
    /\ lastProjectStatusCheck = NULL
    /\ aborted = FALSE
    /\ stopped = FALSE
    /\ api = updateContext(context)
    /\ health = updateState(context)
    /\ tradeHistory = <<>>
    /\ discovery = NoDiscovery
    /\ NoServices
    /\ emitted = [h \in TxHashes |-> 0]
    /\ stallSignals = [episode |-> 0, total |-> 0]
    /\ whaleTrades = [NewWhaleTrades("virtuals_curve") EXCEPT !.isRunning = TRUE, !.ws = 1]
    /\ buybackTracker = NoBuybackTracker
    /\ ws = StartedClient.ws
    /\ transport = StartedClient.tr
    /\ task = [k \in TaskIds |-> NoTask]
    /\ last = NoOp

NextCatchUp ==
    \/ TickLaunchWindow
    \/ \E d \in TimeSteps : Advance(d)

SpecCatchUp == InitCatchUp /\ [][NextCatchUp]_vars

\* handleDiscover() has called discoverProject()
InitDiscover ==
    /\ NoClients
    /\ NoChain
    /\ now = StartNow
    /\ context = ResetContext
    /\ lastProjectStatusCheck = NULL
    /\ aborted = FALSE
    /\ stopped = FALSE
    /\ api = updateContext(ResetContext)
    /\ health = updateState(ResetContext)
    /\ tradeHistory = <<>>
    /\ emitted = [h \in TxHashes |-> 0]
    /\ stallSignals = [episode |-> 0, total |-> 0]
    /\ whaleTrades = NoWhaleTrades
    /\ buybackTracker = NoBuybackTracker
    /\ discovery = [NoDiscovery EXCEPT !.status = "polling"]
    /\ NoServices
    /\ last = NoOp

NextDiscover ==
    \/ DiscoverPoll(FALSE, <<>>, <<>>)
    \/ \E byLaunched \in Listings(MaxListed), byCreated \in Listings(1) :
          DiscoverPoll(TRUE, byLaunched, byCreated)
    \/ \E d \in TimeSteps : Advance(d)

SpecDiscover == InitDiscover /\ [][NextDiscover]_vars

\* a new VirtualsApi serving the upcoming-launches endpoint
InitUpcoming ==
    /\ NoClients
    /\ NoChain
    /\ NoMachine
    /\ last = NoOp

NextUpcoming ==
    \/ \E c \in CallerIds : GetUpcoming(c)
    \/ \E id \in 1..MaxFetches, ok \in BOOLEAN, data \in {1, 2} :
          UpcomingSettle(id, ok, IF ok THEN data ELSE 0)
    \/ \E d \in {10000, 20000} : Elapse(d) /\ now' <= StartNow + 2 * cacheTtlMs

SpecUpcoming == InitUpcoming /\ [][NextUpcoming]_vars

\* the process after main() has called start(): in DISCOVER, or in
\* LAUNCH_WINDOW with the tracker and a started whale detector
InitShutdown ==
    /\ NoChain
    /\ now = StartNow
    /\ lastProjectStatusCheck = NULL
    /\ aborted = FALSE
    /\ stopped = FALSE
    /\ tradeHistory = <<>>
    /\ discovery = NoDiscovery
    /\ NoServices
    /\ emitted = [h \in TxHashes |-> 0]
    /\ stallSignals = [episode |-> 0, total |-> 0]
    /\ buybackTracker = NoBuybackTracker
    /\ task = [k \in TaskIds |-> NoTask]
    /\ \/ /\ context = ResetContext
          /\ whaleTrades = NoWhaleTrades
          /\ ws = [c \in ClientIds |-> NoClient]
          /\ transport = [t \in TransportIds |-> NoTransport]
       \/ /\ context = [ResetContext EXCEPT !.state = LAUNCH_WINDOW, !.project = 1,
                                            !.t0 = LaunchedAt(1),
                                            !.t1 = LaunchedAt(1) + TaxWindowMinutes * 60 * 1000]
          /\ whaleTrades = [NewWhaleTrades("virtuals_curve") EXCEPT !.isRunning = TRUE, !.ws = 1]
          /\ ws = StartedClient.ws
          /\ transport = StartedClient.tr
    /\ api = updateContext(context)
    /\ health = updateState(context)
    /\ last = NoOp

\* start() leaves its loop when a sleep of the loop ends with the signal aborted
NextShutdown ==
    \/ Shutdown
    \/ ProcessExit
    \/ \E d \in {500, 1000} : Pass(d)
    \/ \E ms \in AwaitMs : TickBegin(ms)
    \/ \E ok \in BOOLEAN : TickEnd(ok)
    \/ \E how \in {"none", "fails", "fatal"}, n \in {1, 5} : PollEnd(how, n)
    \/ \E ms \in AwaitMs : PollWake(ms)
    \/ LoopExit /\ LoopAt({"start", "tickSleep", "errorSleep"})

SpecShutdown == InitShutdown /\ [][NextShutdown]_vars

\* an RpcPool with two HTTP endpoints and no call made
InitRpc ==
    /\ NoClients
    /\ NoChain
    /\ NoMachine
    /\ last = NoOp

NextRpc ==
    \/ \E k \in CallIds : RpcAttempt(k)
    \/ \E k \in CallIds, ok \in BOOLEAN : RpcSettle(k, ok)

SpecRpc == InitRpc /\ [][NextRpc]_vars

\* a started ApiServer
InitPush ==
    /\ NoClients
    /\ NoChain
    /\ NoMachine
    /\ last = NoOp

NextPush ==
    \/ \E c \in PushIds : PushConnect(c)
    \/ \E c \in PushIds : PushClose(c)
    \/ \E state \in {DISCOVER, WAIT_T0}, taxTotal \in {0, 5} :
          UpdateContext([ResetContext EXCEPT !.state = state, !.taxTotal = taxTotal])
    \/ \E txHash \in {1} :
          PushTrade([direction |-> "BUY", amountVirtual |-> 1000, amountToken |-> 0,
                     trader |-> TRADER, txHash |-> txHash, blockNumber |-> HeadStart,
                     timestamp |-> BlockTimeMs(HeadStart)])

SpecPush == InitPush /\ [][NextPush]_vars

Init ==
    /\ NoClients
    /\ NoChain
    /\ NoMachine
    /\ last = NoOp

Next ==
    \/ TickDiscover
    \/ TickWaitT0
    \/ TickLaunchWindow
    \/ TickBuybackPhase
    \/ TickDone
    \/ Stop
    \/ LoopExit
    \/ \E d \in TimeSteps : Advance(d)
    \/ \E v \in {2} : Spend(v)

Spec == Init /\ [][Next]_vars

\* ================================================================ claims
\* the logs of lg in blocks (blockStart, lastProcessedBlock] of tracker tt
ScannedPrefix(tt, lg) == ScannedBy(lg, tt.blockStart, tt.lastProcessedBlock)

\* C1: after any sequence of update() calls, failed or not, every transfer log
\* in blocks (blockStart, lastProcessedBlock] has been added to the cumulative
\* counters exactly once and no other log has been added, so that
\* netInflow = inflow - outflow is the sum over the scanned prefix
C1_ExactlyOnce ==
    (taxTracker.present /\ taxTracker.inited) =>
        /\ \A i \in 1..Len(logs) :
              counted[i] = IF i \in ScannedPrefix(taxTracker, logs) THEN 1 ELSE 0
        /\ taxTracker.inflow =
              SumLogs(logs, taxTracker.blockStart, taxTracker.lastProcessedBlock, "in", 1)
        /\ taxTracker.outflow =
              SumLogs(logs, taxTracker.blockStart, taxTracker.lastProcessedBlock, "out", 1)
        /\ taxTracker.netInflow = taxTracker.inflow - taxTracker.outflow

\* C7: lastProcessedBlock never decreases, is never below blockStart, never
\* exceeds the chain's latest block, and one update() advances it by at most
\* maxBlockRange (2000) blocks
C7_Progress ==
    [][ /\ taxTracker'.inited =>
              /\ taxTracker'.blockStart <= taxTracker'.lastProcessedBlock
              /\ taxTracker'.lastProcessedBlock <= head'
        /\ (taxTracker.inited /\ taxTracker'.inited) =>
              /\ taxTracker'.lastProcessedBlock >= taxTracker.lastProcessedBlock
              /\ taxTracker'.lastProcessedBlock - taxTracker.lastProcessedBlock <= maxBlockRange
      ]_vars

\* an update() that advanced by the full range with the head still further ahead
C7_Witness ==
    /\ last.op = "taxUpdate" /\ last.ok
    /\ taxTracker.lastProcessedBlock = last.t + maxBlockRange
    /\ taxTracker.lastProcessedBlock < head
    /\ taxTracker.blockStart < last.t

\* the step is one tick of the loop of start()
IsTick == last'.op = "tick"

\* a tick begins in LAUNCH_WINDOW at or after T1
AtT1 == context.state = LAUNCH_WINDOW /\ context.t1 # NULL /\ now >= context.t1

\* C2 as stated: every tick that starts in LAUNCH_WINDOW with now >= T1 ends
\* outside LAUNCH_WINDOW, whatever the RPC calls of the tick do
C2_LeavesWindow ==
    [][(AtT1 /\ IsTick) => context'.state \in {BUYBACK_PHASE, DONE, DISCOVER}]_vars

\* C2 amended: a tick that starts in LAUNCH_WINDOW with now >= T1 ends in
\* BUYBACK_PHASE when its final update() raises no RPC error; when update()
\* raises, the tick ends in LAUNCH_WINDOW with T1 unchanged and the loop
\* keeps running, so that the step is taken again by a later tick
C2_LeavesWindowUnlessRpcFails ==
    [][(AtT1 /\ IsTick) =>
          IF last'.ok THEN context'.state = BUYBACK_PHASE
          ELSE /\ context'.state = LAUNCH_WINDOW
               /\ context'.t1 = context.t1
               /\ ~stopped' /\ ~aborted']_vars

\* a tick at T1 whose final update() raised, followed by nothing else yet
C2_Witness ==
    /\ last.op = "tick" /\ last.pre = LAUNCH_WINDOW /\ ~last.ok
    /\ context.state = LAUNCH_WINDOW /\ now >= context.t1
    /\ taxTracker.present

PhaseChanges ==
    { <<DISCOVER, WAIT_T0>>, <<WAIT_T0, LAUNCH_WINDOW>>, <<LAUNCH_WINDOW, BUYBACK_PHASE>>,
      <<LAUNCH_WINDOW, DONE>>, <<BUYBACK_PHASE, DONE>>, <<DONE, DISCOVER>> }

\* C3: the phase only changes along DISCOVER->WAIT_T0, WAIT_T0->LAUNCH_WINDOW,
\* LAUNCH_WINDOW->BUYBACK_PHASE, LAUNCH_WINDOW->DONE, BUYBACK_PHASE->DONE and
\* DONE->DISCOVER, and the guard fallbacks to DISCOVER never fire
C3_PhaseOrder ==
    [][ /\ context'.state # context.state => <<context.state, context'.state>> \in PhaseChanges
        /\ IsTick => last'.note # "fallback" ]_vars

\* a graduation seen in LAUNCH_WINDOW has moved the machine to DONE
C3_Witness ==
    /\ last.op = "tick" /\ last.pre = LAUNCH_WINDOW /\ last.note = "graduated"
    /\ context.state = DONE

\* C4: every phase change is made by transition(): right after it the API
\* surface and the health endpoint record the context's phase
C4_TransitionOnly ==
    [][context'.state # context.state =>
          /\ api'.currentState = context'.state
          /\ health'.currentState = context'.state]_vars

\* C5: in DISCOVER the context is reset and the selected project released
C5_ResetInDiscover ==
    context.state = DISCOVER =>
        /\ context.project = NULL
        /\ context.t0 = NULL /\ context.t1 = NULL
        /\ context.taxTotal = 0
        /\ context.lastTaxUpdate = NULL /\ context.lastBuybackUpdate = NULL

\* push client c was created and has not been destroyed
Undestroyed(c) == ws[c].created /\ (ws[c].shouldReconnect \/ ws[c].provider # NULL)

\* C6: in DISCOVER, and once the machine has stopped on cancellation, no
\* monitor is alive: the tax tracker is released, the whale detector and the
\* spend scanner are stopped and every push client they made is destroyed
C6_NoMonitorInDiscover ==
    (context.state = DISCOVER \/ stopped) =>
        /\ ~taxTracker.present
        /\ ~whaleTrades.present
        /\ ~buybackTracker.present
        /\ \A c \in ClientIds : ~Undestroyed(c)
        /\ \A t \in TransportIds : transport[t].status \notin {"open", "connecting"}

\* the transports of client c that are open
OpenTransports(c) == {t \in TransportIds : transport[t].owner = c /\ transport[t].status = "open"}

\* C8: connect() is idempotent: whatever the interleaving of connect() calls on
\* one client, at most one of its transports is open at a time and every
\* caller is handed that connected transport
C8_ConnectIdempotent ==
    /\ \A c \in ClientIds : Cardinality(OpenTransports(c)) <= 1
    /\ (last.op = "connectReturn" /\ ws[last.c].shouldReconnect) =>
          /\ last.t # NULL
          /\ last.t = ws[last.c].provider
          /\ transport[last.t].status = "open"

\* C9: a destroyed push client never opens a transport again and keeps no
\* handler attached, wherever in the reconnect cycle destroy() was called
C9_DestroyIsFinal ==
    \A c \in ClientIds : (ws[c].created /\ ~ws[c].shouldReconnect) =>
        /\ ws[c].provider = NULL
        /\ ws[c].subscriptions = <<>>
        /\ \A t \in TransportIds : transport[t].owner = c =>
              /\ transport[t].status \notin {"connecting", "open"}
              /\ \A s \in SubIds : transport[t].listeners[s] = 0

\* C10: after every successful reconnect each registered subscription has
\* exactly one handler on the new transport, so that a live event reaches its
\* handler exactly once
C10_RestoredOnce ==
    (last.op = "connectReturn" /\ last.ok /\ ws[last.c].provider # NULL) =>
        \A i \in 1..Len(ws[last.c].subscriptions) :
            LET sub == ws[last.c].subscriptions[i] IN
            /\ sub.contract = ws[last.c].provider
            /\ transport[ws[last.c].provider].listeners[sub.id] = 1
            /\ Deliveries(last.c, sub.id) = 1

\* the delays of consecutive failed reconnect attempts, ms
DelayLadder == <<1000, 2000, 4000, 8000, 16000, 32000, 60000>>

\* C11: the reconnect delay starts at 1 s, each scheduled reconnect attempt
\* moves it one rung up the ladder 1, 2, 4, 8, 16, 32, 60, 60, ... s, every
\* successful connect resets it to 1 s, nothing else changes it, and it is
\* within [1 s, 60 s] in every reachable state
C11_Backoff ==
    /\ \A c \in ClientIds : ws[c].reconnectDelay = 1000
    /\ [](\A c \in ClientIds : ws[c].reconnectDelay >= 1000 /\ ws[c].reconnectDelay <= 60000)
    /\ [][\A c \in ClientIds :
            IF last'.op = "reconnect" /\ last'.c = c
            THEN \E i \in 1..7 : /\ ws[c].reconnectDelay = DelayLadder[i]
                                 /\ ws'[c].reconnectDelay = DelayLadder[Min(i + 1, 7)]
            ELSE IF last'.op = "connectReturn" /\ last'.c = c
            THEN ws'[c].reconnectDelay = 1000
            ELSE ws'[c].reconnectDelay = ws[c].reconnectDelay]_vars

\* the eighth attempt is scheduled after a second wait of 60 s
C11_Witness ==
    /\ last.op = "reconnect"
    /\ ws[last.c].reconnectDelay = 60000
    /\ Cardinality({t \in TransportIds : transport[t].owner = last.c
                                         /\ transport[t].status = "closed"}) = 7

\* the hashes of ring are pairwise different
DistinctHashes(ring) ==
    \A i, j \in 1..Len(ring) : i # j => ring[i].txHash # ring[j].txHash

\* C12: whatever events the whale detector is handed during a monitoring run,
\* repeated deliveries and streams longer than the dedup cache included, no
\* transaction hash occurs twice in the API server's trade ring
C12_RingDistinct == DistinctHashes(tradeHistory)

\* a hash pushed out of the dedup cache has been emitted again, into a full ring
C12_Witness ==
    /\ Len(tradeHistory) = maxHistory
    /\ emitted[tradeHistory[1].txHash] = 2
    /\ Len(whaleTrades.lruCache) = lruMaxSize

\* C13: within one detector's lifetime a transaction hash is handed to the
\* trade callback at most once, however long the event stream
C13_EmittedOnce == \A h \in TxHashes : emitted[h] <= 1

\* C14: recordTrade() with a trade whose hash is already in the ring adds no
\* entry
C14_RecordTradeOnce ==
    [][(last'.op = "recordTrade"
        /\ \E i \in 1..Len(tradeHistory) : tradeHistory[i].txHash = last'.t)
       => tradeHistory' = tradeHistory]_vars

\* C15: the spend scanner counts a transaction hash once: a second delivery of
\* an outbound transfer leaves spentTotal and the spend records as they were
C15_SpendOnce ==
    [][(last'.op = "spendSeen" /\ last'.ok
        /\ \E i \in 1..Len(buybackTracker.spentHistory) :
              buybackTracker.spentHistory[i].txHash = last'.e.txHash)
       => /\ buybackTracker'.spentTotal = buybackTracker.spentTotal
          /\ buybackTracker'.spentHistory = buybackTracker.spentHistory]_vars

\* base-token amount that swap e moves into the pool
BaseDelta(wt, e) ==
    IF wt.virtualIsToken0 THEN e.amount0In - e.amount0Out ELSE e.amount1In - e.amount1Out

\* C16: in AMM-v2 mode a swap not seen before whose absolute base-token delta
\* reaches the threshold is emitted as BUY when the base token flows into the
\* pool and as SELL otherwise, with amountVirtual the absolute delta
C16_SwapDirection ==
    [][(last'.op = "swap"
        /\ Abs(BaseDelta(whaleTrades, last'.e)) >= bigTradeVirtual
        /\ ~lruHas(whaleTrades.lruCache, last'.e.txHash))
       => /\ last'.ok
          /\ tradeHistory'[1].txHash = last'.e.txHash
          /\ tradeHistory'[1].direction =
                IF BaseDelta(whaleTrades, last'.e) > 0 THEN "BUY" ELSE "SELL"
          /\ tradeHistory'[1].amountVirtual = Abs(BaseDelta(whaleTrades, last'.e))]_vars

\* C17: in curve mode a transfer to the pool of at least the threshold is
\* emitted as BUY, one from the pool as SELL, a transfer that touches the pool
\* on neither side is never emitted, and amountToken is 0 in every trade
C17_TransferDirection ==
    [][last'.op = "transfer"
       => /\ (last'.e.from # POOL /\ last'.e.to # POOL) => ~last'.ok
          /\ last'.ok =>
                /\ tradeHistory'[1].amountToken = 0
                /\ last'.e.to = POOL => tradeHistory'[1].direction = "BUY"
                /\ last'.e.from = POOL => tradeHistory'[1].direction = "SELL"
          /\ ((last'.e.from = POOL \/ last'.e.to = POOL)
              /\ last'.e.value >= bigTradeVirtual
              /\ ~lruHas(whaleTrades.lruCache, last'.e.txHash)) => last'.ok]_vars

\* the stall condition on scanner bt at time t
StallDue(bt, t) ==
    /\ bt.spentTotal < bt.taxTotal
    /\ bt.lastSpentTime # 0
    /\ t - bt.lastSpentTime > StallAlertMinutes * 60 * 1000

\* C18: a stall is signalled at most once per episode: never twice without a
\* spend recorded in between, only when spentTotal < taxTotal and the last
\* spend is more than stallAlert old (so not before the first spend), and a
\* stall met by checkStall() in an episode without a signal is signalled
C18_StallOncePerEpisode ==
    /\ [](stallSignals.episode <= 1)
    /\ [][stallSignals'.total > stallSignals.total
          => /\ StallDue(buybackTracker, now)
             /\ stallSignals.episode = 0
             /\ stallSignals'.total = stallSignals.total + 1]_vars
    /\ [][(last'.op = "checkStall" /\ StallDue(buybackTracker, now) /\ stallSignals.episode = 0)
          => stallSignals'.episode = 1]_vars

\* a second stall, after a new spend, has been signalled
C18_Witness ==
    /\ last.op = "checkStall" /\ last.ok
    /\ stallSignals = [episode |-> 1, total |-> 2]

\* C19: in BUYBACK_PHASE every tick that stays in the phase runs the stall
\* check, so a stall is signalled by the first tick at which it holds
C19_StallEveryTick ==
    [][(IsTick /\ last'.ok /\ context.state = BUYBACK_PHASE /\ context'.state = BUYBACK_PHASE
        /\ buybackTracker'.present /\ StallDue(buybackTracker', now'))
       => buybackTracker'.stallAlerted]_vars

\* C20: a BUYBACK_PHASE tick at which the spend scanner (the one the tick
\* starts with, or the one it has just started) has spentTotal >= taxTotal
\* moves the machine to DONE before the graduation check and the publication
C20_CompleteToDone ==
    [][(IsTick /\ context.state = BUYBACK_PHASE
        /\ \/ buybackTracker.present /\ buybackTracker.spentTotal >= buybackTracker.taxTotal
           \/ /\ ~buybackTracker.present /\ last'.ok
              /\ buybackTracker'.spentTotal >= buybackTracker'.taxTotal)
       => /\ context'.state = DONE
          /\ lastProjectStatusCheck' = lastProjectStatusCheck
          /\ context'.lastBuybackUpdate = context.lastBuybackUpdate]_vars

\* the budget has been spent and the next tick has ended the phase
C20_Witness ==
    /\ last.op = "tick" /\ last.pre = BUYBACK_PHASE /\ last.note = "complete"
    /\ context.state = DONE
    /\ buybackTracker.spentTotal > 0
    /\ buybackTracker.spentTotal >= buybackTracker.taxTotal

\* C21: every tick that leaves DONE for DISCOVER has published the completion
\* notification of the finished project (sendComplete() called once in that
\* tick), whether DONE was entered from LAUNCH_WINDOW or from BUYBACK_PHASE
C21_CompletionPublished ==
    [][(IsTick /\ context.state = DONE /\ context'.state = DISCOVER) =>
          last'.note = "reset"]_vars

\* the tick made the catalog status check
Checked == IsTick /\ last'.chk # "none"

\* C22: a status check made in LAUNCH_WINDOW or BUYBACK_PHASE that finds the
\* project AVAILABLE or with an lpAddress ends the tick in DONE; one whose
\* lookup fails or finds nothing new leaves the phase as it was; and a check
\* is made only when the run has made none in the last 60 s
C22_StatusCheck ==
    [][Checked =>
          /\ context.state \in {LAUNCH_WINDOW, BUYBACK_PHASE}
          /\ IF last'.chk = "graduated" THEN context'.state = DONE
             ELSE context'.state = context.state
          /\ lastProjectStatusCheck' = now
          /\ lastProjectStatusCheck = NULL
             \/ now - lastProjectStatusCheck >= 60 * 1000]_vars

\* the spend scanner was running when a status check found the project
\* graduated
C22_Witness ==
    /\ last.op = "tick" /\ last.pre = BUYBACK_PHASE /\ last.chk = "graduated"
    /\ context.state = DONE /\ buybackTracker.present
    /\ lastProjectStatusCheck = now

\* C23: whenever the scanner has a budget taxTotal > 0, the progress of
\* getStatus() is min(100, spentTotal / taxTotal x 100) percent (in hundredths:
\* min(10000, spentTotal * 10000 / taxTotal)) and so lies in 0..100 percent
C23_ProgressCapped ==
    (buybackTracker.present /\ buybackTracker.taxTotal > 0) =>
        /\ getStatus(buybackTracker).progress =
              Min(10000, (buybackTracker.spentTotal * 10000) \div buybackTracker.taxTotal)
        /\ getStatus(buybackTracker).progress \in 0..10000

\* a tick begins in LAUNCH_WINDOW before T1 with the tax refresh due
RefreshDue ==
    /\ context.state = LAUNCH_WINDOW /\ context.project # NULL /\ context.t1 # NULL
    /\ taxTracker.present /\ now < context.t1
    /\ context.lastTaxUpdate = NULL \/ now - context.lastTaxUpdate >= 5 * 60 * 1000

\* rounds of 2000 blocks the catch-up loop needs for a backlog, at most 10
Rounds(backlog) ==
    IF backlog <= 2000 THEN 0 ELSE Min(10, (backlog - 2000 + 1999) \div 2000)

\* C24: a refresh tick of LAUNCH_WINDOW calls update() at most 10 times in the
\* catch-up loop and then once more, whatever the backlog: at most 11 calls,
\* and exactly Rounds(backlog) + 1 when no RPC call of the tick fails
C24_CatchUpBounded ==
    [][(RefreshDue /\ IsTick) =>
          /\ last'.calls <= 10 + 1
          /\ last'.ok => last'.calls = Rounds(head - taxTracker.lastProcessedBlock) + 1]_vars

\* a refresh tick has made all 10 catch-up calls and the normal update and the
\* tracker is still behind the head
C24_Witness ==
    /\ last.op = "tick" /\ last.pre = LAUNCH_WINDOW /\ last.ok /\ last.calls = 11
    /\ taxTracker.lastProcessedBlock < head

\* C25: a refresh tick in which no RPC call fails and that starts with the head
\* L at most 22000 blocks ahead of lastProcessedBlock ends with
\* lastProcessedBlock = L, no update() of it having processed over 2000 blocks
C25_CatchUpReachesHead ==
    [][(RefreshDue /\ IsTick /\ last'.ok /\ head - taxTracker.lastProcessedBlock <= 22000) =>
          /\ taxTracker'.lastProcessedBlock = head
          /\ last'.span <= 2000]_vars

\* the tracker went from block 100 to the head 12000 in one tick of 6 calls
C25_Witness ==
    /\ last.op = "tick" /\ last.pre = LAUNCH_WINDOW /\ last.ok /\ last.calls = 6
    /\ taxTracker.blockStart = 100 /\ head = 12000 /\ taxTracker.lastProcessedBlock = 12000
    /\ context.lastTaxUpdate = now

\* C26 as stated: after every update(), whatever the transfer logs of the
\* receiver, inflow >= outflow >= 0 and netInflow >= 0
C26_NonNegative ==
    (taxTracker.present /\ taxTracker.inited) =>
        /\ taxTracker.inflow >= taxTracker.outflow
        /\ taxTracker.outflow >= 0
        /\ taxTracker.netInflow >= 0

\* C26 amended: after every update() inflow >= 0, outflow >= 0 and netInflow
\* is the signed difference inflow - outflow, which is below zero when the
\* receiver sent more than it received in the blocks scanned
C26_SignedNet ==
    (taxTracker.present /\ taxTracker.inited) =>
        /\ taxTracker.inflow >= 0
        /\ taxTracker.outflow >= 0
        /\ taxTracker.netInflow = taxTracker.inflow - taxTracker.outflow

\* an update() without any RPC failure has left a negative net inflow: every
\* counted log was added once and the receiver's outflow exceeds its inflow
C26_Witness ==
    /\ last.op = "taxUpdate" /\ last.ok /\ faults = 0
    /\ taxTracker.netInflow < 0 /\ taxTracker.outflow > taxTracker.inflow
    /\ \A i \in DOMAIN counted : counted[i] <= 1

\* C27: a tick in which discoverProject() raises its too-many-consecutive-
\* failures error ends the loop of start() (the error is not caught and the
\* polling is not resumed); after any other error of a tick the loop goes on
C27_FatalEndsLoop ==
    [][(IsTick /\ ~last'.ok) =>
          IF last'.note = "discover" THEN ~Running' ELSE Running']_vars

\* the ways an iteration of discoverProject() can end, as seen on the step
PollEndings ==
    {x \in {"selection", "sleep", "fatal"} :
        \/ /\ x = "selection"
           /\ discovery'.status = "selected"
           /\ discovery'.callbacks = discovery.callbacks + 1
           /\ discovery'.selected # NoProject
        \/ /\ x = "sleep"
           /\ discovery'.status = "polling" /\ discovery'.slept > 0
           /\ discovery'.callbacks = discovery.callbacks
        \/ /\ x = "fatal"
           /\ discovery'.status = "fatal"
           /\ discovery'.callbacks = discovery.callbacks}

\* C28: every iteration of discoverProject() ends in exactly one of selection
\* (onFound called once, the loop returns), sleep-then-retry, or the fatal
\* error; a successful fetch resets the consecutive-failure counter, which
\* otherwise counts the failed polls in a row; the fatal error is raised at
\* the 10th failure in a row and not before; and the sleep after the n-th
\* failure in a row, n < 10, is min(1 s x 2^n, 30 s)
C28_PollOutcome ==
    [][last'.op = "poll" =>
          /\ Cardinality(PollEndings) = 1
          /\ discovery'.callbacks <= 1
          /\ discovery'.consecutiveErrors = discovery'.streak
          /\ last'.ok => discovery'.consecutiveErrors = 0
          /\ discovery'.status = "fatal" <=> discovery'.streak = 10
          /\ (~last'.ok /\ discovery'.streak < 10) =>
                discovery'.slept = Min(1000 * 2 ^ discovery'.streak, 30000)]_vars

\* the call raised at its 10th failed poll in a row, after a poll that
\* succeeded without a candidate
C28_Witness ==
    /\ last.op = "poll" /\ discovery.status = "fatal"
    /\ discovery.polls = 1 /\ discovery.streak = 10 /\ discovery.callbacks = 0

\* the anchor T0 the catalog gives for a candidate: launchedAt, else
\* lpCreatedAt, else createdAt (0: none of them)
AnchorOf(a) ==
    CASE a.launchedAt # Absent -> a.launchedAt
      [] a.launchedAt = Absent /\ a.lpCreatedAt # Absent -> a.lpCreatedAt
      [] a.launchedAt = Absent /\ a.lpCreatedAt = Absent /\ a.createdAt # Absent -> a.createdAt
      [] OTHER -> 0

\* the result picked from agents at time t is what the selection policy asks
SelectedByPolicy(agents, t, picked) ==
    LET eligible == {i \in DOMAIN agents :
                        /\ agents[i].status = "UNDERGRAD"
                        /\ agents[i].preTokenPair /\ ~agents[i].lpAddress
                        /\ AnchorOf(agents[i]) > 0}
        inWindow == {i \in eligible :
                        /\ AnchorOf(agents[i]) <= t
                        /\ t <= AnchorOf(agents[i]) + 100 * 60 * 1000}
        chosen == IF inWindow # {} THEN inWindow ELSE eligible
        preferred == {i \in chosen : agents[i].symbol = "ORION"}
    IN  /\ picked = NoProject <=> eligible = {}
        /\ picked # NoProject =>
              \E i \in chosen :
                  /\ picked.id = agents[i].id /\ picked.t0 = AnchorOf(agents[i])
                  /\ IF preferred # {} THEN i \in preferred
                     ELSE \A j \in chosen : AnchorOf(agents[j]) <= AnchorOf(agents[i])

\* C29: selectProject() returns none exactly when no candidate is UNDERGRAD
\* with a preTokenPair, no lpAddress and T0 > 0; otherwise it returns such a
\* candidate, one whose tax window holds now if any eligible candidate's does,
\* and within that set the preferred-ticker match if there is one, else a
\* candidate of the greatest T0
C29_SelectionPolicy ==
    [][(last'.op = "poll" /\ last'.ok) =>
          SelectedByPolicy(discovery'.agents, now, discovery'.selected)]_vars

\* a candidate inside its tax window was selected although a preferred-ticker
\* candidate whose window is over was listed before it
C29_Witness ==
    /\ last.op = "poll" /\ discovery.status = "selected" /\ discovery.selected.id = 1
    /\ Len(discovery.agents) >= 2 /\ discovery.agents[1].id = 2

\* the listings of the same candidates in every order
Reorderings(agents) ==
    {[i \in DOMAIN agents |-> agents[p[i]]] :
        p \in {q \in [DOMAIN agents -> DOMAIN agents] :
                  \A i, j \in DOMAIN agents : i # j => q[i] # q[j]}}

\* C30: selectProject() is deterministic in the candidate set: at the same
\* time and with the same configuration, every order of listing the same
\* candidates gives the same result, also when candidates have equal T0 or
\* several carry the preferred ticker
C30_OrderIndependent ==
    [][(last'.op = "poll" /\ last'.ok) =>
          \A listed \in Reorderings(discovery'.agents) :
              selectProject(listed, now) = discovery'.selected]_vars

\* C31: at most one aggregate fetch of the upcoming launches is running at any
\* time and every caller that waits is waiting on it; when it settles all of
\* them get its list or its error; a call made less than 30 s after the last
\* successful fetch returns that list at once and starts no fetch; a failed
\* fetch leaves the cache as it was and no in-flight promise behind
C31_SingleFlight ==
    [][/\ Cardinality(upcoming'.pending) <= 1
       /\ \A c \in CallerIds :
             upcoming'.caller[c].st = "waiting" => upcoming'.caller[c].on \in upcoming'.pending
       /\ (last'.op = "getUpcoming" /\ upcoming.okAt # NULL /\ now - upcoming.okAt < 30000) =>
             /\ upcoming'.caller[last'.c] =
                   [st |-> "got", on |-> NULL, ok |-> TRUE, data |-> upcoming.okData]
             /\ upcoming'.pending = upcoming.pending /\ upcoming'.started = upcoming.started
       /\ last'.op = "upcomingSettle" =>
             /\ \A c \in CallerIds :
                   upcoming.caller[c].st = "waiting" =>
                      /\ upcoming'.caller[c].st = "got"
                      /\ upcoming'.caller[c].ok = last'.ok
                      /\ last'.ok => upcoming'.caller[c].data = upcoming'.okData
             /\ ~last'.ok =>
                   /\ upcoming'.cache = upcoming.cache
                   /\ upcoming'.inFlight = NULL /\ upcoming'.pending = {}]_vars

\* two callers shared the first aggregation, and a later call within 30 s of
\* its success was served from the cache
C31_Witness ==
    /\ last.op = "getUpcoming" /\ last.c = 2 /\ upcoming.started = 1
    /\ upcoming.caller[1] = [st |-> "got", on |-> 1, ok |-> TRUE, data |-> upcoming.okData]
    /\ upcoming.caller[2] = [st |-> "got", on |-> NULL, ok |-> TRUE, data |-> upcoming.okData]
    /\ now > upcoming.okAt

\* C32: updateContext() broadcasts one state_change, carrying the new phase,
\* exactly when the phase of its context differs from the phase of the
\* context of the previous call (before any call: DISCOVER), and nothing
\* otherwise; so a second call with the same phase broadcasts nothing
C32_BroadcastOnChange ==
    [][last'.op = "updateContext" =>
          IF last'.note # last'.pre
          THEN push'.issued = Append(push.issued, ApiEvent("state_change", last'.note, NULL))
          ELSE push'.issued = push.issued]_vars

\* a call that repeated the phase of the call before it, which had broadcast
C32_Witness ==
    /\ last.op = "updateContext" /\ last.pre = WAIT_T0 /\ last.note = WAIT_T0
    /\ Len(push.issued) = 1 /\ api.taxTotal = 5

\* C33: a push socket is first sent one state_change with the snapshot of the
\* time it connected (the phase last handed to updateContext) and then, as long
\* as it is open, every broadcast in the order of issue, each once; a closed
\* socket has been sent a prefix of that
C33_OrderedDelivery ==
    [][/\ last'.op = "pushConnect" =>
             push'.clients[last'.c].inbox = <<ApiEvent("state_change", push.prevState, NULL)>>
       /\ \A c \in PushIds :
             LET sock == push'.clients[c]
                 all == <<ApiEvent("state_change", sock.snapshot, NULL)>>
                           \o SubSeq(push'.issued, sock.since + 1, Len(push'.issued))
             IN  /\ sock.state = "open" => sock.inbox = all
                 /\ sock.state = "closed" =>
                       /\ Len(sock.inbox) <= Len(all)
                       /\ sock.inbox = SubSeq(all, 1, Len(sock.inbox))]_vars

\* socket 1 connected before the first broadcast and socket 2 after it; both
\* are open and have been sent a trade and a later state_change in that order
C33_Witness ==
    /\ push.clients[1].state = "open" /\ push.clients[2].state = "open"
    /\ push.clients[1].since = 0 /\ push.clients[2].since = 1
    /\ Len(push.issued) = 3
    /\ push.issued[2].type = "whale_trade" /\ push.issued[3].type = "state_change"
    /\ Len(push.clients[1].inbox) = 4 /\ Len(push.clients[2].inbox) = 3

\* C34: a call() on a pool of N endpoints that ended in the fatal error ran
\* its fn N times, once on each endpoint, each retry on the endpoint after
\* the one before it (modulo N); a call that returned ran it at most N times;
\* and the active index stays in 0..N-1
C34_FatalAfterEveryEndpoint ==
    /\ httpIndex \in 0..(NumHttp - 1)
    /\ \A k \in CallIds :
          LET call == rpcCall[k] IN
          /\ call.st = "ok" => Len(call.tried) <= NumHttp
          /\ call.st = "fatal" =>
                /\ Len(call.tried) = NumHttp
                /\ {call.tried[i] : i \in DOMAIN call.tried} = 0..(NumHttp - 1)
                /\ \A i \in 1..(Len(call.tried) - 1) :
                      call.tried[i + 1] = (call.tried[i] + 1) % NumHttp

\* C35: a tick whose handler raises leaves the phase as it was before the
\* tick, and leaves the loop running: start() is not left and nothing is
\* aborted, so its next pass runs a tick in the same phase
C35_FailedTickKeepsPhase ==
    [][(last'.op = "tick" /\ ~last'.ok) =>
          /\ context'.state = context.state /\ context'.state = last'.pre
          /\ api'.currentState = context.state
          /\ ~stopped' /\ ~aborted']_vars

\* the final update() of the tax window failed: the machine is still running
\* in LAUNCH_WINDOW past T1
C35_Witness ==
    /\ last.op = "tick" /\ ~last.ok /\ last.pre = LAUNCH_WINDOW
    /\ context.state = LAUNCH_WINDOW /\ now >= context.t1 /\ Running

\* C37: an update() that fails moves the pool's active HTTP endpoint one
\* position on (modulo the number of endpoints), binds the tracker's token
\* contract to the new active endpoint, raises, and leaves lastProcessedBlock
\* as it was; an update() that succeeds leaves the endpoint alone; so after
\* every update() the tracker's binding is the active endpoint
C37_RotateAndRebind ==
    [][last'.op = "taxUpdate" =>
          /\ taxTracker'.endpoint = httpIndex'
          /\ IF last'.ok THEN httpIndex' = httpIndex
             ELSE /\ httpIndex' = (httpIndex + 1) % NumHttp
                  /\ taxTracker'.lastProcessedBlock = taxTracker.lastProcessedBlock]_vars

\* a failed update() of a tracker made on the last endpoint has rotated the
\* pool back to its first endpoint, with the first range still unprocessed
C37_Witness ==
    /\ last.op = "taxUpdate" /\ ~last.ok /\ faults = 1
    /\ httpIndex = 0 /\ taxTracker.endpoint = 0
    /\ taxTracker.inited /\ taxTracker.lastProcessedBlock = taxTracker.blockStart
    /\ head > taxTracker.lastProcessedBlock

\* C38: the tick that enters BUYBACK_PHASE leaves the tax tracker at the chain
\* head its final update() read, so that the taxTotal it hands over as the
\* budget counts every transfer since blockStart
C38_BudgetCoversWindow ==
    [][(last'.op = "tick" /\ last'.pre = LAUNCH_WINDOW /\ context'.state = BUYBACK_PHASE) =>
          /\ taxTracker'.lastProcessedBlock = head
          /\ context'.taxTotal =
                SumLogs(logs, taxTracker'.blockStart, head, "in", 1)
                   - SumLogs(logs, taxTracker'.blockStart, head, "out", 1)]_vars

\* C39: at the end of every tick that leaves the machine in BUYBACK_PHASE with
\* a spend scanner, the scanner's push client is connected and carries its
\* Transfer subscription
C39_ScannerSubscribed ==
    [][(last'.op = "tick" /\ context'.state = BUYBACK_PHASE /\ buybackTracker'.present) =>
          /\ buybackTracker'.ws # NULL
          /\ ws'[buybackTracker'.ws].provider # NULL
          /\ transport'[ws'[buybackTracker'.ws].provider].status = "open"
          /\ Len(ws'[buybackTracker'.ws].subscriptions) = 1]_vars

\* C40: at most one push client of a whale detector has reconnect enabled at
\* any time (before the machine has made a spend scanner, every push client
\* is a whale detector's)
C40_OneDetectorClient ==
    ~buybackTracker.present =>
        Cardinality({c \in ClientIds : ws[c].created /\ ws[c].shouldReconnect}) <= 1

\* C36: when the process has exited after a shutdown signal, start() has left
\* its loop and run cleanup(): the monitors are stopped and every push client
\* they made is destroyed
C36_CleanupBeforeExit ==
    proc.exited => (stopped /\ \A c \in ClientIds : ~Undestroyed(c))
====
